---- MODULE Spec2Model ----
(***************************************************************************)
(* SPC analysis application: the anomaly rule engine (anomalyDetector.ts), *)
(* the control-limit and capability calculator (spcCalculator.ts) and the  *)
(* App component that drives them (App.tsx, processData).                  *)
(*                                                                         *)
(* Numbers.  The program computes with JavaScript numbers.  The model      *)
(* represents every number as an integer numerator over a denominator that *)
(* is common to the series and the limits handed to one detector call.     *)
(* Every detector only compares and subtracts values, so multiplying the   *)
(* series and the limits by the same positive denominator does not change  *)
(* which comparison holds.  sigma = (ucl - center) / 3 is kept exact by    *)
(* comparing 3 * value with 3 * center + k * (ucl - center).               *)
(* Floating-point rounding is not modelled.                                *)
(*                                                                         *)
(* Indices.  Sequences are 1-based here; the index field of an anomaly     *)
(* record is the 0-based array index of the source (position - 1).         *)
(***************************************************************************)
EXTENDS Integers, Sequences, FiniteSets, TLC

VARIABLES
    data,           \* detector call: the series handed to the function
    limits,         \* detector call: the ControlLimits | IMRLimits argument
    rules,          \* detector call: the rules array
    result,         \* detector call: the array returned
    pc,             \* detector call: "input" before the call, "done" after
    args,           \* calculator call: the arguments other than the series
    rawData,        \* App state (useState)
    parameters,     \* App state
    metrics,        \* App state, "null" or a record
    controlLimits,  \* App state, "null" or a record
    anomalies,      \* App state
    processedData,  \* App state
    viewMode,       \* App state
    events,         \* the number of user events handled so far
    lastMessage,    \* what the last run of the effect reported through message.error
    computedFrom    \* history: the (rawData, parameters) snapshot each stored result was set from

detVars == <<data, limits, rules, result, pc, args>>
appVars == <<rawData, parameters, metrics, controlLimits, anomalies, processedData,
             viewMode, events, lastMessage, computedFrom>>
vars == <<data, limits, rules, result, pc, args, rawData, parameters, metrics, controlLimits,
          anomalies, processedData, viewMode, events, lastMessage, computedFrom>>

-----------------------------------------------------------------------------
(* Bounds of the model *)

MaxLen == 5         \* longest series of the merge specification
MaxRun2 == 10       \* longest series of the rule-2 specification
MaxRun3 == 8        \* longest series of the rule-3 specification
MaxRun4 == 15       \* longest series of the rule-4 specification
MaxWin5 == 4        \* longest series of the rule-5 specification
MaxWin6 == 6        \* longest series of the rule-6 specification
MaxRun7 == 16       \* longest run of the rule-7 specification
MaxRun8 == 9        \* longest run of the rule-8 specification
MaxEvents == 5      \* user events (imports, edits, menu clicks) in one App session

MaxColumnRows == 5  \* most rows of a single-column file of the subgroup specification
MaxFileRows == 2    \* most rows of a multi-column file of the subgroup specification
MaxWidth == 3       \* widest row of the subgroup specification
MaxSubgroupSize == 3 \* largest subgroupSize of the subgroup specification

MaxLimSubgroups == 2 \* most subgroups of the control-limit specification
MaxLimWidth == 2    \* largest subgroup of the control-limit specification
MaxLimSeries == 4   \* longest individual series of the control-limit specification

MaxConstantArg == 27 \* largest subgroup size of the constant-lookup specification

MaxMetricsLen == 4  \* longest data set of the metrics specification

MaxStdDevLen == 4   \* longest data set of the standard-deviation specification
MaxDdof == 2        \* largest ddof of the standard-deviation specification

MaxRulesLen == 5    \* longest series of the rules-array specification

-----------------------------------------------------------------------------
(* Generic helpers *)

Abs(x) == IF x < 0 THEN -x ELSE x

SeqsUpTo(S, n) == UNION {[1..k -> S] : k \in 0..n}

\* Array.prototype.includes
includes_firstEntryMutant(arr, x) == Len(arr) > 0 /\ arr[1] = x

includes(arr, x) == \E j \in DOMAIN arr : arr[j] = x

levelPriority == [critical |-> 3, warning |-> 2, info |-> 1]

\* sigma = (ucl - center) / 3, kept as 3 * sigma
sigma3(center, ucl) == ucl - center

-----------------------------------------------------------------------------
(* Rule 1: one point beyond 3 sigma *)

rule1_Fires_strictMutant(value, ucl, lcl) == value >= ucl \/ value <= lcl

rule1_Fires(value, ucl, lcl) == value > ucl \/ value < lcl

rule1_Record(p, value, ucl, lcl) ==
    LET isAbove == value > ucl
    IN [index |-> p - 1, value |-> value, rule |-> 1, level |-> "critical",
        description |-> <<IF isAbove THEN "above" ELSE "below",
                          IF isAbove THEN ucl ELSE lcl>>]

RECURSIVE rule1_Scan(_, _, _, _, _, _)
rule1_Scan(d, center, ucl, lcl, p, acc) ==
    IF p > Len(d) THEN acc
    ELSE rule1_Scan(d, center, ucl, lcl, p + 1,
                    IF rule1_Fires(d[p], ucl, lcl)
                    THEN Append(acc, rule1_Record(p, d[p], ucl, lcl))
                    ELSE acc)

rule1_OutOf3Sigma(d, center, ucl, lcl) == rule1_Scan(d, center, ucl, lcl, 1, <<>>)

-----------------------------------------------------------------------------
(* Rule 2: nine points in a row on the same side of the center line *)

\* the threshold one too low
rule2_minConsecutive_eightMutant == 9 - 1

rule2_minConsecutive == 9

rule2_Side(value, center) ==
    IF value > center THEN "above" ELSE IF value < center THEN "below" ELSE "null"

\* the counter after a point that is not on the center line
rule2_Count_keepMutant(consecutiveCount, previousSide, currentSide) ==
    consecutiveCount + 1

rule2_Count(consecutiveCount, previousSide, currentSide) ==
    IF currentSide = previousSide THEN consecutiveCount + 1 ELSE 1

rule2_Record(p, value, consecutiveCount, currentSide) ==
    [index |-> p - 1, value |-> value, rule |-> 2, level |-> "warning",
     description |-> <<consecutiveCount, currentSide>>]

RECURSIVE rule2_Scan(_, _, _, _, _, _)
rule2_Scan(d, center, p, consecutiveCount, previousSide, acc) ==
    IF p > Len(d) THEN acc
    ELSE LET currentSide == rule2_Side(d[p], center)
         IN IF currentSide = "null"
            THEN rule2_Scan(d, center, p + 1, 0, "null", acc)
            ELSE LET c == rule2_Count(consecutiveCount, previousSide, currentSide)
                 IN rule2_Scan(d, center, p + 1, c, currentSide,
                               IF c >= rule2_minConsecutive
                               THEN Append(acc, rule2_Record(p, d[p], c, currentSide))
                               ELSE acc)

rule2_NineConsecutiveSameSide(d, center) == rule2_Scan(d, center, 1, 0, "null", <<>>)

-----------------------------------------------------------------------------
(* Rule 3: six points in a row steadily increasing or decreasing *)

rule3_minTrend == 6

\* the counter after a non-zero difference
rule3_Count_restartMutant(trendCount, trendDirection, currentDirection) ==
    IF currentDirection = trendDirection THEN trendCount + 1 ELSE 1

rule3_Count(trendCount, trendDirection, currentDirection) ==
    IF currentDirection = trendDirection THEN trendCount + 1 ELSE 2

rule3_Record(d, p, trendCount, trendDirection) ==
    LET startValue == d[p - trendCount + 1]
    IN [index |-> p - 1, value |-> d[p], rule |-> 3, level |-> "warning",
        description |-> <<trendCount, trendDirection, startValue, Abs(d[p] - startValue)>>]

RECURSIVE rule3_Scan(_, _, _, _, _)
rule3_Scan(d, p, trendCount, trendDirection, acc) ==
    IF p > Len(d) THEN acc
    ELSE LET diff == d[p] - d[p - 1]
         IN IF diff = 0
            THEN rule3_Scan(d, p + 1, 1, "null", acc)
            ELSE LET currentDirection == IF diff > 0 THEN "increasing" ELSE "decreasing"
                     c == rule3_Count(trendCount, trendDirection, currentDirection)
                 IN rule3_Scan(d, p + 1, c, currentDirection,
                               IF c >= rule3_minTrend
                               THEN Append(acc, rule3_Record(d, p, c, currentDirection))
                               ELSE acc)

rule3_SixTrending(d) == rule3_Scan(d, 2, 1, "null", <<>>)

-----------------------------------------------------------------------------
(* Rule 4: fourteen points in a row alternating up and down *)

rule4_minAlternating == 14

rule4_Record(p, value, alternatingCount) ==
    [index |-> p - 1, value |-> value, rule |-> 4, level |-> "warning",
     description |-> <<alternatingCount>>]

RECURSIVE rule4_Scan(_, _, _, _)
rule4_Scan(d, p, alternatingCount, acc) ==
    IF p > Len(d) THEN acc
    ELSE LET diff1 == d[p - 1] - d[p - 2]
             diff2 == d[p] - d[p - 1]
         IN IF diff1 = 0 \/ diff2 = 0
            THEN rule4_Scan(d, p + 1, 1, acc)
            ELSE LET direction1 == IF diff1 > 0 THEN "up" ELSE "down"
                     direction2 == IF diff2 > 0 THEN "up" ELSE "down"
                     c == IF direction1 # direction2 THEN alternatingCount + 1 ELSE 1
                 IN rule4_Scan(d, p + 1, c,
                               IF c >= rule4_minAlternating
                               THEN Append(acc, rule4_Record(p, d[p], c))
                               ELSE acc)

rule4_FourteenAlternating(d) == rule4_Scan(d, 3, 1, <<>>)

-----------------------------------------------------------------------------
(* Rule 5: two out of three points in zone A *)

\* 3 * upperZoneA and 3 * lowerZoneA
rule5_upperZoneA3(center, ucl) == 3 * center + 2 * sigma3(center, ucl)
rule5_lowerZoneA3(center, ucl) == 3 * center - 2 * sigma3(center, ucl)

rule5_inZoneA(val, center, ucl, lcl) ==
    \/ (3 * val > rule5_upperZoneA3(center, ucl) /\ val <= ucl)
    \/ (3 * val < rule5_lowerZoneA3(center, ucl) /\ val >= lcl)

rule5_Record(d, p, n, center) ==
    [index |-> p - 1, value |-> d[p], rule |-> 5, level |-> "warning",
     description |-> <<n, IF d[p] > center THEN "upper" ELSE "lower">>]

RECURSIVE rule5_Scan(_, _, _, _, _, _)
rule5_Scan(d, center, ucl, lcl, p, acc) ==
    IF p > Len(d) THEN acc
    ELSE LET inZoneA == {q \in {p - 2, p - 1, p} : rule5_inZoneA(d[q], center, ucl, lcl)}
             n == Cardinality(inZoneA)
         IN rule5_Scan(d, center, ucl, lcl, p + 1,
                       IF n >= 2 THEN Append(acc, rule5_Record(d, p, n, center)) ELSE acc)

rule5_TwoOfThreeInZoneA(d, center, ucl, lcl) == rule5_Scan(d, center, ucl, lcl, 3, <<>>)

-----------------------------------------------------------------------------
(* Rule 6: four out of five points in zone B or beyond *)

rule6_beyond1Sigma_inclusiveMutant(val, center, ucl) ==
    \/ 3 * val >= 3 * center + sigma3(center, ucl)
    \/ 3 * val <= 3 * center - sigma3(center, ucl)

rule6_beyond1Sigma(val, center, ucl) ==
    \/ 3 * val > 3 * center + sigma3(center, ucl)
    \/ 3 * val < 3 * center - sigma3(center, ucl)

rule6_Record(d, p, n, center) ==
    [index |-> p - 1, value |-> d[p], rule |-> 6, level |-> "info",
     description |-> <<n, IF d[p] > center THEN "upper" ELSE "lower">>]

RECURSIVE rule6_Scan(_, _, _, _, _)
rule6_Scan(d, center, ucl, p, acc) ==
    IF p > Len(d) THEN acc
    ELSE LET inZoneBOrBeyond == {q \in (p - 4)..p : rule6_beyond1Sigma(d[q], center, ucl)}
             n == Cardinality(inZoneBOrBeyond)
         IN rule6_Scan(d, center, ucl, p + 1,
                       IF n >= 4 THEN Append(acc, rule6_Record(d, p, n, center)) ELSE acc)

rule6_FourOfFiveInZoneB(d, center, ucl, lcl) == rule6_Scan(d, center, ucl, 5, <<>>)

-----------------------------------------------------------------------------
(* Rule 7: fifteen points in a row in zone C *)

rule7_minConsecutive == 15

rule7_inZoneC_strictMutant(value, center, ucl) ==
    /\ 3 * value > 3 * center - sigma3(center, ucl)
    /\ 3 * value < 3 * center + sigma3(center, ucl)

rule7_inZoneC(value, center, ucl) ==
    /\ 3 * value >= 3 * center - sigma3(center, ucl)
    /\ 3 * value <= 3 * center + sigma3(center, ucl)

rule7_Record(p, value, consecutiveCount) ==
    [index |-> p - 1, value |-> value, rule |-> 7, level |-> "info",
     description |-> <<consecutiveCount>>]

RECURSIVE rule7_Scan(_, _, _, _, _, _)
rule7_Scan(d, center, ucl, p, consecutiveCount, acc) ==
    IF p > Len(d) THEN acc
    ELSE LET c == IF rule7_inZoneC(d[p], center, ucl) THEN consecutiveCount + 1 ELSE 0
         IN rule7_Scan(d, center, ucl, p + 1, c,
                       IF c >= rule7_minConsecutive
                       THEN Append(acc, rule7_Record(p, d[p], c))
                       ELSE acc)

rule7_FifteenInZoneC(d, center, ucl, lcl) == rule7_Scan(d, center, ucl, 1, 0, <<>>)

-----------------------------------------------------------------------------
(* Rule 8: eight points in a row beyond zone C *)

rule8_minConsecutive == 8

rule8_beyondZoneC_inclusiveMutant(value, center, ucl) ==
    \/ 3 * value >= 3 * center + sigma3(center, ucl)
    \/ 3 * value <= 3 * center - sigma3(center, ucl)

rule8_beyondZoneC(value, center, ucl) ==
    \/ 3 * value > 3 * center + sigma3(center, ucl)
    \/ 3 * value < 3 * center - sigma3(center, ucl)

rule8_Record(p, value, consecutiveCount, center) ==
    [index |-> p - 1, value |-> value, rule |-> 8, level |-> "warning",
     description |-> <<consecutiveCount, IF value > center THEN "upper" ELSE "lower">>]

RECURSIVE rule8_Scan(_, _, _, _, _, _)
rule8_Scan(d, center, ucl, p, consecutiveCount, acc) ==
    IF p > Len(d) THEN acc
    ELSE LET c == IF rule8_beyondZoneC(d[p], center, ucl) THEN consecutiveCount + 1 ELSE 0
         IN rule8_Scan(d, center, ucl, p + 1, c,
                       IF c >= rule8_minConsecutive
                       THEN Append(acc, rule8_Record(p, d[p], c, center))
                       ELSE acc)

rule8_EightBeyondZoneC(d, center, ucl, lcl) == rule8_Scan(d, center, ucl, 1, 0, <<>>)

-----------------------------------------------------------------------------
(* detectAllAnomalies *)

\* 'xBar' in limits ? limits.xBar : limits.individual
chartLimitsOf(lim) == IF "xBar" \in DOMAIN lim THEN lim.xBar ELSE lim.individual

\* the output of rule k on the series
ruleOutput(k, d, center, ucl, lcl) ==
    CASE k = 1 -> rule1_OutOf3Sigma(d, center, ucl, lcl)
      [] k = 2 -> rule2_NineConsecutiveSameSide(d, center)
      [] k = 3 -> rule3_SixTrending(d)
      [] k = 4 -> rule4_FourteenAlternating(d)
      [] k = 5 -> rule5_TwoOfThreeInZoneA(d, center, ucl, lcl)
      [] k = 6 -> rule6_FourOfFiveInZoneB(d, center, ucl, lcl)
      [] k = 7 -> rule7_FifteenInZoneC(d, center, ucl, lcl)
      [] k = 8 -> rule8_EightBeyondZoneC(d, center, ucl, lcl)

\* the eight "if (rules.includes(k)) allAnomalies = allAnomalies.concat(...)" in order
RECURSIVE collectAnomalies(_, _, _, _, _, _, _)
collectAnomalies(d, center, ucl, lcl, rs, k, acc) ==
    IF k > 8 THEN acc
    ELSE collectAnomalies(d, center, ucl, lcl, rs, k + 1,
                          IF includes(rs, k)
                          THEN acc \o ruleOutput(k, d, center, ucl, lcl)
                          ELSE acc)

\* whether the record replaces the one already stored for its index
replaces_lastWinsMutant(anomaly, existing) == TRUE

replaces_notLowerMutant(anomaly, existing) ==
    levelPriority[anomaly.level] >= levelPriority[existing.level]

replaces(anomaly, existing) ==
    levelPriority[anomaly.level] > levelPriority[existing.level]

\* allAnomalies.forEach(...) filling anomalyMap
RECURSIVE fillAnomalyMap(_, _, _)
fillAnomalyMap(allAnomalies, j, anomalyMap) ==
    IF j > Len(allAnomalies) THEN anomalyMap
    ELSE LET anomaly == allAnomalies[j]
             set == (anomaly.index \notin DOMAIN anomalyMap)
                    \/ replaces(anomaly, anomalyMap[anomaly.index])
         IN fillAnomalyMap(allAnomalies, j + 1,
                IF set
                THEN [x \in DOMAIN anomalyMap \cup {anomaly.index} |->
                         IF x = anomaly.index THEN anomaly ELSE anomalyMap[x]]
                ELSE anomalyMap)

\* Array.from(anomalyMap.values()).sort((a, b) => a.index - b.index)
RECURSIVE sortByIndex(_)
sortByIndex(anomalyMap) ==
    IF DOMAIN anomalyMap = {} THEN <<>>
    ELSE LET m == CHOOSE x \in DOMAIN anomalyMap : \A y \in DOMAIN anomalyMap : x <= y
         IN <<anomalyMap[m]>> \o
            sortByIndex([x \in DOMAIN anomalyMap \ {m} |-> anomalyMap[x]])

\* the collected records returned as they are, neither merged nor sorted
detectAllAnomalies_unmergedMutant(d, lim, rs) ==
    LET chartLimits == chartLimitsOf(lim)
    IN collectAnomalies(d, chartLimits.center, chartLimits.ucl, chartLimits.lcl, rs, 1, <<>>)

detectAllAnomalies(d, lim, rs) ==
    LET chartLimits == chartLimitsOf(lim)
        allAnomalies == collectAnomalies(d, chartLimits.center, chartLimits.ucl,
                                         chartLimits.lcl, rs, 1, <<>>)
    IN sortByIndex(fillAnomalyMap(allAnomalies, 1, <<>>))

-----------------------------------------------------------------------------
(* Constants table (constants.ts).  A2, D3, D4, d2, d3 in thousandths, c4   *)
(* in ten-thousandths.                                                      *)

SPC_CONSTANTS ==
    2 :> [A2 |-> 1880, D3 |-> 0, D4 |-> 3267, c4 |-> 7979, d2 |-> 1128, d3 |-> 853] @@
    3 :> [A2 |-> 1023, D3 |-> 0, D4 |-> 2575, c4 |-> 8862, d2 |-> 1693, d3 |-> 888] @@
    4 :> [A2 |-> 729, D3 |-> 0, D4 |-> 2282, c4 |-> 9213, d2 |-> 2059, d3 |-> 880] @@
    5 :> [A2 |-> 577, D3 |-> 0, D4 |-> 2115, c4 |-> 9400, d2 |-> 2326, d3 |-> 864] @@
    6 :> [A2 |-> 483, D3 |-> 0, D4 |-> 2004, c4 |-> 9515, d2 |-> 2534, d3 |-> 848] @@
    7 :> [A2 |-> 419, D3 |-> 76, D4 |-> 1924, c4 |-> 9594, d2 |-> 2704, d3 |-> 833] @@
    8 :> [A2 |-> 373, D3 |-> 136, D4 |-> 1864, c4 |-> 9650, d2 |-> 2847, d3 |-> 820] @@
    9 :> [A2 |-> 337, D3 |-> 184, D4 |-> 1816, c4 |-> 9693, d2 |-> 2970, d3 |-> 808] @@
    10 :> [A2 |-> 308, D3 |-> 223, D4 |-> 1777, c4 |-> 9727, d2 |-> 3078, d3 |-> 797] @@
    11 :> [A2 |-> 285, D3 |-> 256, D4 |-> 1744, c4 |-> 9754, d2 |-> 3173, d3 |-> 787] @@
    12 :> [A2 |-> 266, D3 |-> 284, D4 |-> 1716, c4 |-> 9776, d2 |-> 3258, d3 |-> 778] @@
    13 :> [A2 |-> 249, D3 |-> 308, D4 |-> 1692, c4 |-> 9794, d2 |-> 3336, d3 |-> 770] @@
    14 :> [A2 |-> 235, D3 |-> 329, D4 |-> 1671, c4 |-> 9810, d2 |-> 3407, d3 |-> 763] @@
    15 :> [A2 |-> 223, D3 |-> 348, D4 |-> 1652, c4 |-> 9823, d2 |-> 3472, d3 |-> 756] @@
    16 :> [A2 |-> 212, D3 |-> 364, D4 |-> 1636, c4 |-> 9835, d2 |-> 3532, d3 |-> 750] @@
    17 :> [A2 |-> 203, D3 |-> 379, D4 |-> 1621, c4 |-> 9845, d2 |-> 3588, d3 |-> 744] @@
    18 :> [A2 |-> 194, D3 |-> 392, D4 |-> 1608, c4 |-> 9854, d2 |-> 3640, d3 |-> 739] @@
    19 :> [A2 |-> 187, D3 |-> 404, D4 |-> 1596, c4 |-> 9862, d2 |-> 3689, d3 |-> 734] @@
    20 :> [A2 |-> 180, D3 |-> 414, D4 |-> 1586, c4 |-> 9869, d2 |-> 3735, d3 |-> 729] @@
    21 :> [A2 |-> 173, D3 |-> 425, D4 |-> 1575, c4 |-> 9876, d2 |-> 3778, d3 |-> 724] @@
    22 :> [A2 |-> 167, D3 |-> 434, D4 |-> 1566, c4 |-> 9882, d2 |-> 3819, d3 |-> 720] @@
    23 :> [A2 |-> 162, D3 |-> 443, D4 |-> 1557, c4 |-> 9887, d2 |-> 3858, d3 |-> 716] @@
    24 :> [A2 |-> 157, D3 |-> 452, D4 |-> 1548, c4 |-> 9892, d2 |-> 3895, d3 |-> 712] @@
    25 :> [A2 |-> 153, D3 |-> 459, D4 |-> 1541, c4 |-> 9896, d2 |-> 3931, d3 |-> 708]

\* getConstant and getAllConstants throw for the number n = num / den (den > 0):
\* n < 2, n > 25, or SPC_CONSTANTS[n] is undefined (the table has integer keys)
getConstantThrowsAt_rangeOnlyMutant(num, den) == num < 2 * den \/ num > 25 * den

getConstantThrowsAt(num, den) ==
    \/ num < 2 * den
    \/ num > 25 * den
    \/ ~(num % den = 0 /\ (num \div den) \in DOMAIN SPC_CONSTANTS)

\* getConstant throws for this integer n
getConstantThrows(n) == getConstantThrowsAt(n, 1)

\* the outcome of getConstant(num / den, key): an error or the value returned
getConstantOutcome(num, den, key) ==
    IF getConstantThrowsAt(num, den) THEN [threw |-> TRUE, value |-> 0]
    ELSE [threw |-> FALSE, value |-> SPC_CONSTANTS[num \div den][key]]

\* the outcome of getAllConstants(num / den): an error or the row returned
getAllConstantsOutcome(num, den) ==
    IF getConstantThrowsAt(num, den) THEN [threw |-> TRUE, value |-> <<>>]
    ELSE [threw |-> FALSE, value |-> SPC_CONSTANTS[num \div den]]

\* getConstant(n, key) when it does not throw
getConstant(n, key) == SPC_CONSTANTS[n][key]

-----------------------------------------------------------------------------
(* Statistical primitives (spcCalculator.ts).  A mean is a fraction: the    *)
(* callers below keep the numerator (the sum) and the denominator (the      *)
(* length) apart.                                                           *)

RECURSIVE SumSeq(_)
SumSeq(s) == IF Len(s) = 0 THEN 0 ELSE s[1] + SumSeq(Tail(s))

RECURSIVE ProdSeq(_)
ProdSeq(s) == IF Len(s) = 0 THEN 1 ELSE s[1] * ProdSeq(Tail(s))

SeqMax(s) == CHOOSE x \in {s[j] : j \in DOMAIN s} : \A y \in {s[j] : j \in DOMAIN s} : y <= x
SeqMin(s) == CHOOSE x \in {s[j] : j \in DOMAIN s} : \A y \in {s[j] : j \in DOMAIN s} : x <= y

\* mean(data) as [num, den]; 0 for the empty array
mean(s) == IF Len(s) = 0 THEN [num |-> 0, den |-> 1] ELSE [num |-> SumSeq(s), den |-> Len(s)]

\* range(data) = max - min; 0 for the empty array
range_minMinusMaxMutant(s) == IF Len(s) = 0 THEN 0 ELSE SeqMin(s) - SeqMax(s)

range(s) == IF Len(s) = 0 THEN 0 ELSE SeqMax(s) - SeqMin(s)

\* calculatePassRate: the count of values within [lsl, usl] (passRate = 100 * count / n)
withinSpec(s, usl, lsl) == Cardinality({j \in DOMAIN s : s[j] >= lsl /\ s[j] <= usl})

\* calculatePassRate as [num, den] percent; 0 for the empty array
calculatePassRate(s, usl, lsl) ==
    IF Len(s) = 0 THEN [num |-> 0, den |-> 1]
    ELSE [num |-> 100 * withinSpec(s, usl, lsl), den |-> Len(s)]

\* n * (sum of the squared deviations from the mean) = n * sum(x^2) - (sum x)^2
devSq(s) == Len(s) * SumSeq([j \in DOMAIN s |-> s[j] * s[j]]) - SumSeq(s) * SumSeq(s)

\* stdDev(data, ddof), kept as its square [num, den]:
\* 0 when data.length <= ddof, else devSq / (n * (n - ddof))
stdDev_populationMutant(s, ddof) ==
    IF Len(s) <= ddof THEN [num |-> 0, den |-> 1]
    ELSE [num |-> devSq(s), den |-> Len(s) * Len(s)]

stdDev(s, ddof) ==
    IF Len(s) <= ddof THEN [num |-> 0, den |-> 1]
    ELSE [num |-> devSq(s), den |-> Len(s) * (Len(s) - ddof)]

\* sigma === 0
isZero(sigma) == sigma.num = 0

\* A capability index is Infinity or a multiple num / den of 1 / sigma.
Infinity == [infinite |-> TRUE, num |-> 0, den |-> 1]
OverSigma(num, den) == [infinite |-> FALSE, num |-> num, den |-> den]

\* Math.min of two fractions over the same positive denominator
MathMin(a, b) == IF b < a THEN b ELSE a

\* (usl - lsl) / (6 * sigma)
calculateCP(s, usl, lsl) ==
    IF isZero(stdDev(s, 1)) THEN Infinity ELSE OverSigma(usl - lsl, 6)

\* the ends (usl - avg) / (3 sigma) and (avg - lsl) / (3 sigma) of cpk and ppk,
\* over the denominator 3 * n
capabilityUpper(s, usl) == usl * Len(s) - SumSeq(s)
capabilityLower(s, lsl) == SumSeq(s) - lsl * Len(s)

calculateCPK_maxMutant(s, usl, lsl) ==
    IF isZero(stdDev(s, 1)) THEN Infinity
    ELSE OverSigma(-MathMin(-capabilityUpper(s, usl), -capabilityLower(s, lsl)), 3 * Len(s))

calculateCPK(s, usl, lsl) ==
    IF isZero(stdDev(s, 1)) THEN Infinity
    ELSE OverSigma(MathMin(capabilityUpper(s, usl), capabilityLower(s, lsl)), 3 * Len(s))

calculatePP_zeroMutant(s, usl, lsl) ==
    IF isZero(stdDev(s, 0)) THEN OverSigma(0, 6) ELSE OverSigma(usl - lsl, 6)

calculatePP(s, usl, lsl) ==
    IF isZero(stdDev(s, 0)) THEN Infinity ELSE OverSigma(usl - lsl, 6)

calculatePPK(s, usl, lsl) ==
    IF isZero(stdDev(s, 0)) THEN Infinity
    ELSE OverSigma(MathMin(capabilityUpper(s, usl), capabilityLower(s, lsl)), 3 * Len(s))

\* calculateAllMetrics
calculateAllMetrics(s, usl, lsl) ==
    [n |-> Len(s),
     mean |-> mean(s),
     stdDev |-> stdDev(s, 1),
     cp |-> calculateCP(s, usl, lsl),
     cpk |-> calculateCPK(s, usl, lsl),
     pp |-> calculatePP(s, usl, lsl),
     ppk |-> calculatePPK(s, usl, lsl),
     passRate |-> calculatePassRate(s, usl, lsl)]

\* A normality estimate is NaN or a number known to lie in [lo, hi]
\* (thousandths).  The model does not evaluate Math.exp: the clamp
\* Math.max(0.001, Math.min(1, e)) of a number e lies in [0.001, 1], and
\* Math.min and Math.max return NaN when an argument is NaN.
NaN == [isNaN |-> TRUE, lo |-> 0, hi |-> 0]
Within(lo, hi) == [isNaN |-> FALSE, lo |-> lo, hi |-> hi]
clampPValue(eIsNaN) == IF eIsNaN THEN NaN ELSE Within(1, 1000)

\* andersonDarlingTest: with sigma = 0 every z is NaN, no term is added, A2 is
\* -n and the estimate is Math.min(1, Math.exp(n)) = 1
andersonDarlingTest(s) ==
    IF isZero(stdDev(s, 1)) THEN Within(1000, 1000) ELSE clampPValue(FALSE)

\* shapiroWilkTest: (x - avg) / sigma is 0 / 0 = NaN for every x when sigma = 0,
\* and the NaN goes through the moments, departure and Math.exp
shapiroWilkTest(s) ==
    IF Len(s) < 3 THEN Within(1000, 1000)
    ELSE IF Len(s) > 5000 THEN andersonDarlingTest(s)
    ELSE clampPValue(isZero(stdDev(s, 1)))

\* calculatedMetrics of processData: calculateAllMetrics plus normalityPValue
calculatedMetrics_withoutLastMutant(allValues, usl, lsl) ==
    LET m == calculateAllMetrics(SubSeq(allValues, 1, Len(allValues) - 1), usl, lsl)
    IN [n |-> m.n, mean |-> m.mean, stdDev |-> m.stdDev, cp |-> m.cp, cpk |-> m.cpk,
        pp |-> m.pp, ppk |-> m.ppk, passRate |-> m.passRate,
        normalityPValue |-> shapiroWilkTest(allValues)]

calculatedMetrics(allValues, usl, lsl) ==
    LET m == calculateAllMetrics(allValues, usl, lsl)
    IN [n |-> m.n, mean |-> m.mean, stdDev |-> m.stdDev, cp |-> m.cp, cpk |-> m.cpk,
        pp |-> m.pp, ppk |-> m.ppk, passRate |-> m.passRate,
        normalityPValue |-> shapiroWilkTest(allValues)]

\* calculateXbarRLimits(subgroups, n) when getConstant does not throw.
\* xBar chart over the denominator 1000 * P * m, R chart over 1000 * m,
\* with m the number of subgroups and P the product of their lengths.
calculateXbarRLimits(subgroups, n) ==
    LET m == Len(subgroups)
        P == ProdSeq([j \in DOMAIN subgroups |-> Len(subgroups[j])])
        xBars == [j \in DOMAIN subgroups |->
                     SumSeq(subgroups[j]) * (P \div Len(subgroups[j]))]
        ranges == [j \in DOMAIN subgroups |-> range(subgroups[j])]
        sumR == SumSeq(ranges)
        A2 == getConstant(n, "A2")
        D3 == getConstant(n, "D3")
        D4 == getConstant(n, "D4")
        xBarBar == 1000 * SumSeq(xBars)
    IN [xBar |-> [center |-> xBarBar,
                  ucl |-> xBarBar + A2 * sumR * P,
                  lcl |-> xBarBar - A2 * sumR * P,
                  den |-> 1000 * P * m],
        r |-> [center |-> 1000 * sumR,
               ucl |-> D4 * sumR,
               lcl |-> D3 * sumR,
               den |-> 1000 * m]]

\* the subgroup means over the denominator of the xBar chart
xBarValuesOf(subgroups) ==
    LET m == Len(subgroups)
        P == ProdSeq([j \in DOMAIN subgroups |-> Len(subgroups[j])])
    IN [j \in DOMAIN subgroups |->
           SumSeq(subgroups[j]) * (P \div Len(subgroups[j])) * 1000 * m]

\* calculateIMRLimits throws for this input
calculateIMRLimitsThrows_oneMutant(d) == Len(d) < 1

calculateIMRLimitsThrows(d) == Len(d) < 2

movingRangesOf(d) == [j \in 1..(Len(d) - 1) |-> Abs(d[j + 1] - d[j])]

\* calculateIMRLimits(data) when it does not throw.
\* individual chart over the denominator d2 * N * (N - 1) (d2 in thousandths,
\* so 3 / d2 is 3000 / d2), moving-range chart over 1000 * (N - 1).
calculateIMRLimits(d) ==
    LET N == Len(d)
        sumMR == SumSeq(movingRangesOf(d))
        d2 == getConstant(2, "d2")
        D3 == getConstant(2, "D3")
        D4 == getConstant(2, "D4")
        xBar == d2 * (N - 1) * SumSeq(d)
    IN [individual |-> [center |-> xBar,
                        ucl |-> xBar + 3000 * N * sumMR,
                        lcl |-> xBar - 3000 * N * sumMR,
                        den |-> d2 * N * (N - 1)],
        movingRange |-> [center |-> 1000 * sumMR,
                         ucl |-> D4 * sumMR,
                         lcl |-> D3 * sumMR,
                         den |-> 1000 * (N - 1)]]

-----------------------------------------------------------------------------
(* The App component: initial state (useState initial values).              *)
(* Measurements and specification limits are in units of 0.5, so usl = 11.0 *)
(* is 22 and lsl = 9.5 is 19; target is stored doubled (10.25 is 41) so     *)
(* that the midpoint (usl + lsl) / 2 stays an integer.                      *)

Null == <<>>
IsNull(x) == DOMAIN x = {}

AllRules == <<1, 2, 3, 4, 5, 6, 7, 8>>

InitialParameters ==
    [usl |-> 22, lsl |-> 19, target |-> 41, subgroupSize |-> 5,
     anomalyRules |-> AllRules, chartType |-> "xbar-r"]

AppInit ==
    /\ rawData = <<>>
    /\ parameters = InitialParameters
    /\ metrics = Null
    /\ controlLimits = Null
    /\ anomalies = <<>>
    /\ processedData = <<>>
    /\ viewMode = "home"
    /\ events = 0
    /\ lastMessage = "none"
    /\ computedFrom = [metrics |-> <<<<>>, InitialParameters>>,
                       controlLimits |-> <<<<>>, InitialParameters>>,
                       anomalies |-> <<<<>>, InitialParameters>>,
                       processedData |-> <<<<>>, InitialParameters>>]

-----------------------------------------------------------------------------
(* The App component: processData and the effect that runs it *)

\* rawData.flatMap(row => row.values)
RECURSIVE allValuesOf(_)
allValuesOf(rd) ==
    IF Len(rd) = 0 THEN <<>> ELSE rd[1].values \o allValuesOf(Tail(rd))

\* Array.prototype.slice(lo, hi) with 0-based lo and exclusive hi, 0 <= lo <= hi
slice(arr, lo, hi) ==
    LET h == IF hi > Len(arr) THEN Len(arr) ELSE hi
    IN IF lo >= h THEN <<>> ELSE SubSeq(arr, lo + 1, h)

\* the loop "for (i = 0; i < rawData.length; i += subgroupSize)" that chunks
\* single-column rows; n >= 1
RECURSIVE chunkRows(_, _, _, _)
chunkRows(rd, n, i, subgroups) ==
    IF ~(i < Len(rd)) THEN subgroups
    ELSE LET rows == slice(rd, i, i + n)
             subgroup == [t \in DOMAIN rows |-> rows[t].values[1]]
         IN chunkRows(rd, n, i + n,
                      IF Len(subgroup) = n THEN Append(subgroups, subgroup) ELSE subgroups)

\* subgroup formation of the X-bar & R branch
formSubgroups(rd, n) ==
    IF Len(rd[1].values) = n
    THEN [j \in DOMAIN rd |-> rd[j].values]
    ELSE IF Len(rd[1].values) = 1
         THEN chunkRows(rd, n, 0, <<>>)
         ELSE [j \in DOMAIN rd |-> slice(rd[j].values, 0, n)]

\* anomalyMap.get(index) || []: the detected anomalies of a 0-based row index
rowAnomaliesOf_nextIndexMutant(detected, index) ==
    SelectSeq(detected, LAMBDA a : a.index = index + 1)

rowAnomaliesOf(detected, index) ==
    SelectSeq(detected, LAMBDA a : a.index = index)

\* the status of a row from its anomalies
rowStatus(rowAnomalies) ==
    IF \E j \in DOMAIN rowAnomalies : rowAnomalies[j].level = "critical" THEN "critical"
    ELSE IF \E j \in DOMAIN rowAnomalies : rowAnomalies[j].level = "warning" THEN "warning"
    ELSE "normal"

\* rawData.map((row, index) => ({...row, id, mean, range, status, anomalies}))
processRows(rd, detected) ==
    [j \in DOMAIN rd |->
        LET rowAnomalies == rowAnomaliesOf(detected, j - 1)
        IN [values |-> rd[j].values,
            id |-> j,
            mean |-> mean(rd[j].values),
            range |-> range(rd[j].values),
            status |-> rowStatus(rowAnomalies),
            anomalies |-> rowAnomalies]]

\* the stored results, as one record
Stored ==
    [metrics |-> metrics, controlLimits |-> controlLimits, anomalies |-> anomalies,
     processedData |-> processedData, lastMessage |-> lastMessage,
     computedFrom |-> computedFrom]

\* setControlLimits, setAnomalies and setProcessedData at the end of processData
storeLimitsAndAnomalies(st, rd, p, lim, xBarValues) ==
    LET detected == detectAllAnomalies(xBarValues, lim, p.anomalyRules)
    IN [st EXCEPT !.controlLimits = lim,
                  !.anomalies = detected,
                  !.processedData = processRows(rd, detected),
                  !.computedFrom.controlLimits = <<rd, p>>,
                  !.computedFrom.anomalies = <<rd, p>>,
                  !.computedFrom.processedData = <<rd, p>>]

\* processData inside the try / catch of the effect; rd is not empty.
\* lastMessage is "none" when the run reported nothing.
processData(rd, p, st0) ==
    LET st == [st0 EXCEPT !.lastMessage = "none"]
    IN
    IF p.usl <= p.lsl
    THEN [st EXCEPT !.lastMessage = "usl must be greater than lsl"]
    ELSE
    LET allValues == allValuesOf(rd)
    IN
    IF Len(allValues) = 0
    THEN st
    ELSE
    LET st1 == [st EXCEPT !.metrics = calculatedMetrics(allValues, p.usl, p.lsl),
                          !.computedFrom.metrics = <<rd, p>>]
    IN
    IF p.chartType = "i-mr" \/ p.subgroupSize = 1
    THEN LET individualValues == [j \in DOMAIN rd |-> rd[j].values[1]]
         IN IF calculateIMRLimitsThrows(individualValues)
            THEN [st1 EXCEPT !.lastMessage = "error: need at least 2 data points"]
            ELSE LET lim == calculateIMRLimits(individualValues)
                 IN storeLimitsAndAnomalies(st1, rd, p, lim,
                        [j \in DOMAIN individualValues |->
                            individualValues[j] * lim.individual.den])
    ELSE LET subgroups == formSubgroups(rd, p.subgroupSize)
         IN IF Len(subgroups) = 0
            THEN [st1 EXCEPT !.lastMessage = "cannot group by subgroup size"]
            ELSE IF getConstantThrows(p.subgroupSize)
                 THEN [st1 EXCEPT !.lastMessage = "error: subgroup size out of range"]
                 ELSE storeLimitsAndAnomalies(st1, rd, p,
                          calculateXbarRLimits(subgroups, p.subgroupSize),
                          xBarValuesOf(subgroups))

\* the useEffect on [rawData, parameters]
effect(rd, p, st) ==
    IF Len(rd) = 0
    THEN [st EXCEPT !.processedData = <<>>,
                    !.metrics = Null,
                    !.controlLimits = Null,
                    !.anomalies = <<>>,
                    !.lastMessage = "none",
                    !.computedFrom = [metrics |-> <<rd, p>>, controlLimits |-> <<rd, p>>,
                                      anomalies |-> <<rd, p>>, processedData |-> <<rd, p>>]]
    ELSE processData(rd, p, st)

-----------------------------------------------------------------------------
(* The App component: rendering and event handlers *)

menuKeyToViewMode(key) ==
    CASE key = "home" -> "home"
      [] key = "summary" -> "summary"
      [] key = "start-1" -> "data-import"
      [] key = "start-2" -> "param-config"
      [] key = "detection-1" -> "control-chart"
      [] key = "detection-2" -> "capability"
      [] key = "detection-3" -> "anomaly"
      [] key = "dashboard-1" -> "xbar-r"
      [] key = "dashboard-2" -> "i-mr"
      [] key = "dashboard-3" -> "histogram"
      [] key = "monitor-1" -> "realtime"
      [] key = "monitor-2" -> "alarm"
      [] key = "analysis-1" -> "cpk"
      [] key = "analysis-2" -> "normality"
      [] key = "analysis-3" -> "trend"
      [] key \in {"data-1", "data-2", "data-3"} -> "data-import"
      [] key \in {"config", "config-1", "config-2"} -> "config"
      [] OTHER -> "dashboard"

\* the views whose content holds a HorizontalParameterPanel (renderDashboard,
\* renderControlCharts, renderAnomalyDetection)
HorizontalPanelViews ==
    {"home", "dashboard", "data-import", "realtime", "alarm",
     "control-chart", "anomaly", "xbar-r", "i-mr"}

\* the views whose content is the ConfigOverview
ConfigOverviewViews == {"param-config", "config"}

\* the parameters after rendering: renderXbarRCharts and renderIMRCharts call
\* setParameters while rendering; nothing but the welcome page is rendered
\* while rawData is empty
renderedParameters(rd, p, vm) ==
    IF Len(rd) = 0 THEN p
    ELSE IF vm = "xbar-r" /\ p.chartType # "xbar-r"
         THEN [p EXCEPT !.chartType = "xbar-r"]
         ELSE IF vm = "i-mr" /\ p.chartType # "i-mr"
              THEN [p EXCEPT !.chartType = "i-mr", !.subgroupSize = 1]
              ELSE p

\* a handler has set the state to (rd, p, vm): the component renders and the
\* effect runs on the rendered state
Commit(rd, p, vm) ==
    LET rp == renderedParameters(rd, p, vm)
        st == effect(rd, rp, Stored)
    IN /\ events < MaxEvents
       /\ events' = events + 1
       /\ rawData' = rd
       /\ parameters' = rp
       /\ viewMode' = vm
       /\ metrics' = st.metrics
       /\ controlLimits' = st.controlLimits
       /\ anomalies' = st.anomalies
       /\ processedData' = st.processedData
       /\ lastMessage' = st.lastMessage
       /\ computedFrom' = st.computedFrom

Row(vs) == [values |-> vs]

\* imported files: seven single values (a trend of six, then an outlier),
\* four subgroups of two, and a single value
DataSingle == <<Row(<<20>>), Row(<<21>>), Row(<<22>>), Row(<<23>>), Row(<<24>>),
                Row(<<25>>), Row(<<40>>)>>
DataPairs == <<Row(<<20, 22>>), Row(<<21, 21>>), Row(<<19, 23>>), Row(<<26, 26>>)>>
DataOne == <<Row(<<20>>)>>

DataChoices == {DataSingle, DataPairs, DataOne}

\* metadata of an imported file: the fields present and their values
NoMetadata == [present |-> {}, usl |-> 0, lsl |-> 0, target |-> 0]
MetadataChoices ==
    {NoMetadata,
     [present |-> {"usl", "lsl", "target"}, usl |-> 22, lsl |-> 19, target |-> 41],
     [present |-> {"usl"}, usl |-> 19, lsl |-> 0, target |-> 0]}

\* parameters after the auto-fill from metadata
metadataParameters(p, md) ==
    [p EXCEPT !.usl = IF "usl" \in md.present THEN md.usl ELSE @,
              !.lsl = IF "lsl" \in md.present THEN md.lsl ELSE @,
              !.target = IF "target" \in md.present THEN md.target ELSE @]

handleDataImported ==
    \E d \in DataChoices : \E md \in MetadataChoices :
        /\ pc = "idle"
        /\ Commit(d, metadataParameters(parameters, md), viewMode)
        /\ UNCHANGED detVars

MenuKeys == {"home", "start-2", "dashboard-1", "dashboard-2"}

onMenuClick ==
    \E key \in MenuKeys :
        /\ pc = "idle"
        /\ Commit(rawData, parameters, menuKeyToViewMode(key))
        /\ UNCHANGED detVars

RuleSelections == {AllRules, <<2, 3, 4, 5, 6, 7, 8>>}

\* values a user can give a field of the HorizontalParameterPanel
\* (subgroupSize: InputNumber min 2 max 25)
HorizontalFieldValues(field) ==
    CASE field = "usl" -> {19, 22}
      [] field = "lsl" -> {19}
      [] field = "chartType" -> {"xbar-r", "i-mr"}
      [] field = "subgroupSize" -> {2}
      [] field = "anomalyRules" -> RuleSelections

\* values a user can give a field of the ConfigOverview
\* (subgroupSize: InputNumber min 1 max 25)
ConfigFieldValues(field) ==
    CASE field = "usl" -> {19, 22}
      [] field = "lsl" -> {19}
      [] field = "chartType" -> {"xbar-r", "i-mr"}
      [] field = "subgroupSize" -> {1, 2}
      [] field = "anomalyRules" -> RuleSelections

ParameterFields == {"usl", "lsl", "chartType", "subgroupSize", "anomalyRules"}

\* HorizontalParameterPanel.handleValuesChange -> setParameters
HorizontalPanelChange ==
    \E field \in ParameterFields : \E v \in HorizontalFieldValues(field) :
        /\ pc = "idle"
        /\ Len(rawData) > 0
        /\ viewMode \in HorizontalPanelViews
        /\ Commit(rawData, [parameters EXCEPT ![field] = v], viewMode)
        /\ UNCHANGED detVars

\* ConfigOverview.handleFieldChange -> setParameters
ConfigOverviewChange ==
    \E field \in ParameterFields : \E v \in ConfigFieldValues(field) :
        /\ pc = "idle"
        /\ Len(rawData) > 0
        /\ viewMode \in ConfigOverviewViews
        /\ Commit(rawData, [parameters EXCEPT ![field] = v], viewMode)
        /\ UNCHANGED detVars

\* the views whose content holds the SPCRecommendation card (renderDashboard,
\* renderSummary, renderAnomalyDetection); the card needs metrics and
\* controlLimits
RecommendationViews ==
    {"home", "dashboard", "data-import", "realtime", "alarm", "summary", "anomaly"}

\* The suggested limits are metrics.mean + 3 * metrics.stdDev and
\* metrics.mean - 3 * metrics.stdDev.  The model keeps usl and lsl on the
\* measurement grid: the suggested usl is rounded up and the suggested lsl
\* down, so that suggested usl > suggested lsl exactly when stdDev > 0.
SuggestionGrid == -40..120

\* u >= mean + 3 * stdDev
atLeastSuggestedUSL(m, u) ==
    /\ u * m.mean.den >= m.mean.num
    /\ (u * m.mean.den - m.mean.num) * (u * m.mean.den - m.mean.num) * m.stdDev.den
           >= 9 * m.stdDev.num * m.mean.den * m.mean.den

\* l <= mean - 3 * stdDev
atMostSuggestedLSL(m, l) ==
    /\ l * m.mean.den <= m.mean.num
    /\ (m.mean.num - l * m.mean.den) * (m.mean.num - l * m.mean.den) * m.stdDev.den
           >= 9 * m.stdDev.num * m.mean.den * m.mean.den

suggestedUSL(m) ==
    CHOOSE u \in SuggestionGrid :
        atLeastSuggestedUSL(m, u) /\ ~atLeastSuggestedUSL(m, u - 1)

suggestedLSL(m) ==
    CHOOSE l \in SuggestionGrid :
        atMostSuggestedLSL(m, l) /\ ~atMostSuggestedLSL(m, l + 1)

\* SPCRecommendation "apply suggested limits" -> handleApplySuggestedLimits(usl, lsl);
\* target (kept doubled) becomes the midpoint
handleApplySuggestedLimits ==
    /\ pc = "idle"
    /\ Len(rawData) > 0
    /\ viewMode \in RecommendationViews
    /\ ~IsNull(metrics)
    /\ ~IsNull(controlLimits)
    /\ LET usl == suggestedUSL(metrics)
           lsl == suggestedLSL(metrics)
       IN Commit(rawData,
                 [parameters EXCEPT !.usl = usl, !.lsl = lsl, !.target = usl + lsl],
                 viewMode)
    /\ UNCHANGED detVars

Init ==
    /\ AppInit
    /\ data = <<>>
    /\ limits = Null
    /\ rules = <<>>
    /\ result = <<>>
    /\ pc = "idle"
    /\ args = <<>>

Next ==
    \/ handleDataImported
    \/ onMenuClick
    \/ HorizontalPanelChange
    \/ ConfigOverviewChange
    \/ handleApplySuggestedLimits

Spec == Init /\ [][Next]_vars

-----------------------------------------------------------------------------
(* Calls of the detector functions on drawn inputs *)

\* limit sets handed to the detectors: sigma = 1 around 0, and an
\* asymmetric set with sigma = 4/3
LimitsA == [xBar |-> [center |-> 0, ucl |-> 3, lcl |-> -3, den |-> 1],
            r |-> [center |-> 0, ucl |-> 0, lcl |-> 0, den |-> 1]]
LimitsB == [individual |-> [center |-> 0, ucl |-> 4, lcl |-> -3, den |-> 1],
            movingRange |-> [center |-> 0, ucl |-> 0, lcl |-> 0, den |-> 1]]
\* sigma = 3 around 0
LimitsC == [xBar |-> [center |-> 0, ucl |-> 9, lcl |-> -9, den |-> 1],
            r |-> [center |-> 0, ucl |-> 0, lcl |-> 0, den |-> 1]]

LimitChoices == {LimitsA, LimitsB}

\* the series that starts at start and moves by the given steps
RECURSIVE WalkFrom(_, _)
WalkFrom(start, steps) ==
    IF Len(steps) = 0 THEN <<start>>
    ELSE <<start>> \o WalkFrom(start + steps[1], Tail(steps))

\* up-down-up-down steps, beginning with first
Alternating(first, n) == [j \in 1..n |-> IF j % 2 = 1 THEN first ELSE -first]

InitCall ==
    /\ pc = "input"
    /\ result = <<>>
    /\ args = <<>>
    /\ AppInit

\* rule 1: every series over values around the limits
InitRule1 ==
    /\ data \in SeqsUpTo({-4, -3, 0, 3, 4}, MaxLen)
    /\ limits \in LimitChoices
    /\ rules = <<1>>
    /\ InitCall

\* rule 2: every series over below / on / above the center line
InitRule2 ==
    /\ data \in SeqsUpTo({-1, 0, 1}, MaxRun2)
    /\ limits = LimitsA
    /\ rules = <<2>>
    /\ InitCall

\* rule 3: every pattern of falling, equal and rising steps
InitRule3 ==
    /\ data \in {<<>>} \cup {WalkFrom(0, st) : st \in SeqsUpTo({-1, 0, 1}, MaxRun3 - 1)}
    /\ limits = LimitsA
    /\ rules = <<3>>
    /\ InitCall

\* rule 4: every pattern of falling and rising steps, every short pattern
\* with equal steps, and alternating series with one equal step
InitRule4 ==
    /\ data \in {<<>>}
          \cup {WalkFrom(0, st) : st \in SeqsUpTo({-1, 1}, MaxRun4 - 1)}
          \cup {WalkFrom(0, st) : st \in SeqsUpTo({-1, 0, 1}, 6)}
          \cup {WalkFrom(0, [Alternating(f, n) EXCEPT ![z] = 0]) :
                    f \in {-1, 1}, n \in {MaxRun4 - 1}, z \in 1..(MaxRun4 - 1)}
    /\ limits = LimitsA
    /\ rules = <<4>>
    /\ InitCall

\* rule 5: every short series over all zones
InitRule5 ==
    /\ data \in SeqsUpTo({-4, -3, -2, 0, 2, 3, 4}, MaxWin5)
    /\ limits \in LimitChoices
    /\ rules = <<5>>
    /\ InitCall

RuleChoices == {AllRules, <<>>, <<6>>, <<1, 6>>, <<5, 6>>}

\* series of 9 points, all above the center line and none above ucl
NineAbove ==
    {w \in {WalkFrom(s, st) : s \in {1, 5, 9}, st \in [1..8 -> {-1, 0, 1}]} :
        \A j \in DOMAIN w : w[j] > LimitsC.xBar.center /\ w[j] <= LimitsC.xBar.ucl}

\* detectAllAnomalies: every short series over all zones with a choice of
\* rules, and the nine-point series with all rules
InitDetect ==
    /\ \/ /\ data \in SeqsUpTo({-3, 0, 2, 3, 4}, MaxLen)
          /\ limits = LimitsA
          /\ rules \in RuleChoices
       \/ /\ data \in NineAbove
          /\ limits = LimitsC
          /\ rules = AllRules
    /\ InitCall

CallRule1 ==
    /\ pc = "input"
    /\ pc' = "done"
    /\ result' = rule1_OutOf3Sigma(data, chartLimitsOf(limits).center,
                                   chartLimitsOf(limits).ucl, chartLimitsOf(limits).lcl)
    /\ UNCHANGED <<data, limits, rules, args>>
    /\ UNCHANGED appVars

CallRule2 ==
    /\ pc = "input"
    /\ pc' = "done"
    /\ result' = rule2_NineConsecutiveSameSide(data, chartLimitsOf(limits).center)
    /\ UNCHANGED <<data, limits, rules, args>>
    /\ UNCHANGED appVars

CallRule3 ==
    /\ pc = "input"
    /\ pc' = "done"
    /\ result' = rule3_SixTrending(data)
    /\ UNCHANGED <<data, limits, rules, args>>
    /\ UNCHANGED appVars

CallRule4 ==
    /\ pc = "input"
    /\ pc' = "done"
    /\ result' = rule4_FourteenAlternating(data)
    /\ UNCHANGED <<data, limits, rules, args>>
    /\ UNCHANGED appVars

CallRule5 ==
    /\ pc = "input"
    /\ pc' = "done"
    /\ result' = rule5_TwoOfThreeInZoneA(data, chartLimitsOf(limits).center,
                                         chartLimitsOf(limits).ucl, chartLimitsOf(limits).lcl)
    /\ UNCHANGED <<data, limits, rules, args>>
    /\ UNCHANGED appVars

CallDetect ==
    /\ pc = "input"
    /\ pc' = "done"
    /\ result' = detectAllAnomalies(data, limits, rules)
    /\ UNCHANGED <<data, limits, rules, args>>
    /\ UNCHANGED appVars

SpecRule1 == InitRule1 /\ [][CallRule1]_vars
SpecRule2 == InitRule2 /\ [][CallRule2]_vars
SpecRule3 == InitRule3 /\ [][CallRule3]_vars
SpecRule4 == InitRule4 /\ [][CallRule4]_vars
SpecRule5 == InitRule5 /\ [][CallRule5]_vars
SpecDetect == InitDetect /\ [][CallDetect]_vars

-----------------------------------------------------------------------------
(* Vocabulary of the properties *)

Center == chartLimitsOf(limits).center
Ucl == chartLimitsOf(limits).ucl
Lcl == chartLimitsOf(limits).lcl

\* the records of a list at a 0-based index
RecordsAt(list, i) == {j \in DOMAIN list : list[j].index = i}
HasRecordAt(list, i) == RecordsAt(list, i) # {}

\* the 0-based indices of the series
Indices == 0..(Len(data) - 1)

\* the point at a 0-based index
Point(i) == data[i + 1]

\* the points at the 0-based indices lo..hi all satisfy P
AllPoints(lo, hi, P(_)) == \A q \in lo..hi : P(Point(q))

\* the difference between the point at 0-based index q and the one before it
Diff(q) == Point(q) - Point(q - 1)

-----------------------------------------------------------------------------
(* C1: merge of the detectors' records *)

\* the outputs of the eight detectors on the series of the call
DetectorOutputs == [k \in 1..8 |-> ruleOutput(k, data, Center, Ucl, Lcl)]

\* the enabled detectors that fired at index i, given the detectors' outputs
FiringIn(outs, i) == {k \in 1..8 : includes(rules, k) /\ HasRecordAt(outs[k], i)}

FiringAt(i) == FiringIn(DetectorOutputs, i)

\* the severity with which detector k fired at index i
SeverityIn(outs, k, i) ==
    levelPriority[outs[k][CHOOSE j \in DOMAIN outs[k] : outs[k][j].index = i].level]

SeveritiesAt(i) == {SeverityIn(DetectorOutputs, k, i) : k \in FiringAt(i)}

\* C1: the output of detectAllAnomalies has a record at index i exactly when
\* an enabled detector fired at i; it then has exactly one record at i, whose
\* severity is the highest among the enabled detectors that fired at i.
C1_MergeKeepsHighestSeverity ==
    pc = "done" =>
        LET outs == DetectorOutputs
        IN /\ \A j \in DOMAIN result : result[j].index \in Indices
           /\ \A i \in Indices :
                 LET firing == FiringIn(outs, i)
                 IN IF firing = {}
                    THEN ~HasRecordAt(result, i)
                    ELSE /\ Cardinality(RecordsAt(result, i)) = 1
                         /\ \A j \in RecordsAt(result, i) :
                               /\ \E k \in firing :
                                     levelPriority[result[j].level] = SeverityIn(outs, k, i)
                               /\ \A k \in firing :
                                     SeverityIn(outs, k, i) <= levelPriority[result[j].level]

\* an index where detectors of three different severities fired and the
\* critical record was kept
C1_Witness ==
    /\ pc = "done"
    /\ \E i \in Indices :
          /\ SeveritiesAt(i) = {1, 2, 3}
          /\ \E j \in RecordsAt(result, i) : result[j].level = "critical"

-----------------------------------------------------------------------------
(* C2: rule 1 *)

\* C2: rule 1 emits a critical record at index i exactly when the point is
\* strictly above ucl or strictly below lcl; a point equal to ucl or to lcl
\* produces no record.
C2_Rule1StrictlyBeyondLimits ==
    pc = "done" =>
        /\ \A i \in Indices :
              HasRecordAt(result, i) <=> (Point(i) > Ucl \/ Point(i) < Lcl)
        /\ \A i \in Indices :
              (Point(i) = Ucl \/ Point(i) = Lcl) => ~HasRecordAt(result, i)
        /\ \A j \in DOMAIN result :
              /\ result[j].rule = 1
              /\ result[j].level = "critical"
              /\ result[j].index \in Indices
              /\ result[j].value = Point(result[j].index)

\* a series with a point on ucl, a point on lcl and a point beyond ucl
C2_Witness ==
    /\ pc = "done"
    /\ \E i \in Indices : Point(i) = Ucl /\ ~HasRecordAt(result, i)
    /\ \E i \in Indices : Point(i) = Lcl /\ ~HasRecordAt(result, i)
    /\ \E i \in Indices : Point(i) > Ucl /\ HasRecordAt(result, i)

-----------------------------------------------------------------------------
(* C3: rule 2 *)

\* the k points ending at index i are all strictly above, or all strictly
\* below, the center line
SameSideRun(i, k) ==
    /\ i + 1 >= k
    /\ \/ AllPoints(i - k + 1, i, LAMBDA v : v > Center)
       \/ AllPoints(i - k + 1, i, LAMBDA v : v < Center)

\* the length of the longest same-side run ending at index i
SameSideRunLength(i) ==
    CHOOSE k \in 0..(i + 1) :
        /\ (k > 0 => SameSideRun(i, k))
        /\ (k < i + 1 => ~SameSideRun(i, k + 1))

\* C3: rule 2 emits a warning record at index i exactly when the 9 points
\* ending at i are all strictly on the same side of center (a point on the
\* center line or a side change ends the run); every record reports the
\* length of the run so far, so the reported length grows by one at each
\* further index of the run.
C3_Rule2NineSameSide ==
    pc = "done" =>
        /\ \A i \in Indices :
              HasRecordAt(result, i) <=> SameSideRun(i, rule2_minConsecutive)
        /\ \A i \in Indices : Cardinality(RecordsAt(result, i)) <= 1
        /\ \A j \in DOMAIN result :
              /\ result[j].rule = 2
              /\ result[j].level = "warning"
              /\ result[j].index \in Indices
              /\ result[j].description[1] = SameSideRunLength(result[j].index)
        /\ \A j \in DOMAIN result : \A h \in DOMAIN result :
              result[h].index = result[j].index + 1
                  => result[h].description[1] = result[j].description[1] + 1

\* a run that reached 9 and went on: records at two consecutive indices,
\* reporting 9 and then 10
C3_Witness ==
    /\ pc = "done"
    /\ \E j \in DOMAIN result : \E h \in DOMAIN result :
          /\ result[h].index = result[j].index + 1
          /\ result[j].description[1] = rule2_minConsecutive
          /\ result[h].description[1] = rule2_minConsecutive + 1

-----------------------------------------------------------------------------
(* C7: rule 3 *)

\* the k points ending at index i are strictly increasing, or strictly decreasing
MonotoneRun(i, k) ==
    /\ i + 1 >= k
    /\ \/ \A q \in (i - k + 2)..i : Diff(q) > 0
       \/ \A q \in (i - k + 2)..i : Diff(q) < 0

MonotoneRunLength(i) ==
    CHOOSE k \in 1..(i + 1) :
        /\ MonotoneRun(i, k)
        /\ (k < i + 1 => ~MonotoneRun(i, k + 1))

\* C7: rule 3 emits a warning record at index i exactly when the 6 points
\* ending at i are strictly monotone; the record reports the length of the
\* monotone run ending at i (a zero difference leaves a run of one point, a
\* change of direction a run of two).
C7_Rule3SixMonotone ==
    pc = "done" =>
        /\ \A i \in Indices :
              HasRecordAt(result, i) <=> MonotoneRun(i, rule3_minTrend)
        /\ \A i \in Indices : Cardinality(RecordsAt(result, i)) <= 1
        /\ \A j \in DOMAIN result :
              /\ result[j].rule = 3
              /\ result[j].level = "warning"
              /\ result[j].index \in Indices
              /\ result[j].description[1] = MonotoneRunLength(result[j].index)

\* a series that changes direction and then has a record exactly six points
\* after the turn: the run was restarted at two
C7_Witness ==
    /\ pc = "done"
    /\ \E j \in DOMAIN result :
          /\ result[j].description[1] = rule3_minTrend
          /\ result[j].index >= rule3_minTrend
          /\ Diff(result[j].index - rule3_minTrend + 1) # 0

-----------------------------------------------------------------------------
(* C6: rule 4 *)

\* the k points ending at index i alternate up and down: the k - 1
\* differences are non-zero and each has the opposite sign of the one before
AlternatingRun(i, k) ==
    /\ i + 1 >= k
    /\ \A q \in (i - k + 2)..i : Diff(q) # 0
    /\ \A q \in (i - k + 3)..i : (Diff(q) > 0) # (Diff(q - 1) > 0)

\* C6 (as claimed): rule 4 emits a record at index i whenever the 14 points
\* ending at i alternate up and down.
C6_Rule4FourteenAlternating ==
    pc = "done" =>
        \A i \in Indices :
            AlternatingRun(i, rule4_minAlternating) => HasRecordAt(result, i)

-----------------------------------------------------------------------------
(* C5: rule 5 *)

\* the point v lies in zone A on the same side of center as the point w
InZoneAOnSideOf(v, w) ==
    \/ w > Center /\ 3 * v > 3 * Center + 2 * (Ucl - Center) /\ v <= Ucl
    \/ w < Center /\ 3 * v < 3 * Center - 2 * (Ucl - Center) /\ v >= Lcl

\* C5 (as claimed): rule 5 emits a record at index i >= 2 exactly when at
\* least 2 of the 3 points ending at i lie in zone A on the same side of
\* center as the point at i.
C5_Rule5TwoOfThreeSameSide ==
    pc = "done" =>
        \A i \in Indices :
            HasRecordAt(result, i) <=>
                /\ i >= 2
                /\ Cardinality({q \in (i - 2)..i : InZoneAOnSideOf(Point(q), Point(i))}) >= 2

-----------------------------------------------------------------------------
(* C4: nine points above the center line, all rules enabled *)

\* the call is on exactly 9 points, all strictly above center and none above
\* ucl, with all eight rules enabled (and lcl not above center)
NineAboveCall ==
    /\ Len(data) = 9
    /\ AllPoints(0, Len(data) - 1, LAMBDA v : v > Center /\ v <= Ucl)
    /\ Lcl <= Center
    /\ \A k \in 1..8 : includes(rules, k)

\* C4 (as claimed): the output is exactly one record, a warning of rule 2 at
\* index 8.
C4_NineAboveOnlyRule2 ==
    (pc = "done" /\ NineAboveCall) =>
        /\ Len(result) = 1
        /\ result[1].index = 8
        /\ result[1].rule = 2
        /\ result[1].level = "warning"

\* C4 (amended): the output has exactly one record at index 8, a warning of
\* rule 2, and no other record of rule 2; every other record lies at an
\* earlier index and is a record of rule 3, 5, 6 or 8, at an index where that
\* rule fired.
C4_NineAboveRule2AtIndex8 ==
    (pc = "done" /\ NineAboveCall) =>
        /\ Cardinality(RecordsAt(result, 8)) = 1
        /\ \A j \in DOMAIN result :
              IF result[j].index = 8
              THEN result[j].rule = 2 /\ result[j].level = "warning"
              ELSE /\ result[j].index < 8
                   /\ result[j].rule \in {3, 5, 6, 8}
                   /\ result[j].rule \in FiringAt(result[j].index)

\* a nine-point call where rule 8 (and rule 6) also fired at index 8 and the
\* rule-2 record was kept there, with further records before it
C4_Witness ==
    /\ pc = "done"
    /\ NineAboveCall
    /\ {2, 8} \subseteq FiringAt(8)
    /\ \E j \in DOMAIN result :
          result[j].index = 8 /\ result[j].rule = 2
    /\ Len(result) > 1

-----------------------------------------------------------------------------
(* Claims about the App's stored results *)

\* the current (rawData, parameters) snapshot
Snapshot == <<rawData, parameters>>

\* the merged anomaly list has a record of this level at the row's 0-based index
MergedHas(level, rowIndex) ==
    \E k \in DOMAIN anomalies :
        anomalies[k].index = rowIndex /\ anomalies[k].level = level

\* the highest severity among the anomalies attached to a processed row
HighestSeverity(row) ==
    IF \E k \in DOMAIN row.anomalies : row.anomalies[k].level = "critical" THEN "critical"
    ELSE IF \E k \in DOMAIN row.anomalies : row.anomalies[k].level = "warning" THEN "warning"
    ELSE "normal"

\* C8: after processing, a row's status is 'critical' if and only if the merged
\* anomaly list has a critical record at that row's index, 'warning' if and
\* only if it has a warning record there, and 'normal' otherwise; the status is
\* the highest severity among the anomalies attributed to the row's index.
C8_RowStatusFromMergedList ==
    \A j \in DOMAIN processedData :
        LET row == processedData[j]
        IN /\ (row.status = "critical") <=> MergedHas("critical", j - 1)
           /\ (row.status = "warning") <=> MergedHas("warning", j - 1)
           /\ (row.status = "normal") <=>
                  (~MergedHas("critical", j - 1) /\ ~MergedHas("warning", j - 1))
           /\ row.status = HighestSeverity(row)
           /\ \A k \in DOMAIN row.anomalies : row.anomalies[k].index = j - 1

\* processed rows with a critical, a warning and a normal status next to a
\* merged list that has records
C8_Witness ==
    /\ Len(anomalies) > 0
    /\ \E j \in DOMAIN processedData : processedData[j].status = "critical"
    /\ \E j \in DOMAIN processedData : processedData[j].status = "warning"
    /\ \E j \in DOMAIN processedData : processedData[j].status = "normal"

\* C9: after any sequence of data imports and parameter changes, the stored
\* metrics, control limits, anomaly list and per-row statuses are all computed
\* from the same, current (rawData, parameters) snapshot.
C9_ResultsFromCurrentSnapshot ==
    /\ computedFrom.metrics = Snapshot
    /\ computedFrom.controlLimits = Snapshot
    /\ computedFrom.anomalies = Snapshot
    /\ computedFrom.processedData = Snapshot

\* C10: processing a configuration with usl <= lsl, or with subgroupSize
\* outside [2,25], ends in a reported error, and no control limits or anomaly
\* list are computed from that configuration.
C10_ConfigErrorsSurfaced ==
    (/\ Len(rawData) > 0
     /\ \/ parameters.usl <= parameters.lsl
        \/ parameters.subgroupSize \notin 2..25)
    => /\ lastMessage # "none"
       /\ computedFrom.controlLimits # Snapshot
       /\ computedFrom.anomalies # Snapshot

-----------------------------------------------------------------------------
(* Claims about data sufficiency and configuration in the App *)

\* the App processes in I-MR mode
IMRMode == parameters.chartType = "i-mr" \/ parameters.subgroupSize = 1

\* no subgroup of subgroupSize values can be formed from the rows: the first
\* row is a single value of a single-column file that has fewer rows than
\* subgroupSize
NoSubgroupFormed ==
    /\ Len(rawData[1].values) # parameters.subgroupSize
    /\ Len(rawData[1].values) = 1
    /\ Len(rawData) < parameters.subgroupSize

InsufficientData == IF IMRMode THEN Len(rawData) < 2 ELSE NoSubgroupFormed

\* C11: with fewer than 2 individual values in I-MR mode, or with zero
\* subgroups formed in X-bar/R mode, processing reports an error and produces
\* no control limits and no anomaly list from that input; with 2 or more
\* values (I-MR) or at least one subgroup (X-bar/R) limits are produced.
C11_DataSufficiency ==
    (Len(rawData) > 0 /\ parameters.usl > parameters.lsl)
    => IF InsufficientData
       THEN /\ lastMessage # "none"
            /\ computedFrom.controlLimits # Snapshot
            /\ computedFrom.anomalies # Snapshot
       ELSE /\ computedFrom.controlLimits = Snapshot
            /\ ~IsNull(controlLimits)

\* a single individual value processed in I-MR mode
C11_Witness ==
    /\ Len(rawData) = 1
    /\ parameters.usl > parameters.lsl
    /\ IMRMode
    /\ lastMessage # "none"

-----------------------------------------------------------------------------
(* Subgroup formation on drawn files *)

\* rows of one to MaxWidth measurements
RowChoices == {Row(vs) : vs \in SeqsUpTo({0, 1}, MaxWidth) \ {<<>>}}

\* single-column files of up to MaxColumnRows rows, and files of up to
\* MaxFileRows rows of any widths (equal or differing)
FileChoices ==
    {[j \in DOMAIN vs |-> Row(<<vs[j]>>)] :
        vs \in SeqsUpTo({0, 1}, MaxColumnRows) \ {<<>>}}
    \cup (SeqsUpTo(RowChoices, MaxFileRows) \ {<<>>})

InitSubgroups ==
    /\ data \in FileChoices
    /\ \E n \in 2..MaxSubgroupSize : args = [subgroupSize |-> n]
    /\ limits = Null
    /\ rules = <<>>
    /\ pc = "input"
    /\ result = <<>>
    /\ AppInit

\* the X-bar & R branch of processData forms the subgroups
CallFormSubgroups ==
    /\ pc = "input"
    /\ pc' = "done"
    /\ result' = formSubgroups(data, args.subgroupSize)
    /\ UNCHANGED <<data, limits, rules, args>>
    /\ UNCHANGED appVars

SpecSubgroups == InitSubgroups /\ [][CallFormSubgroups]_vars

\* the width of row j of the file
Width(j) == Len(data[j].values)

\* C12: every subgroup handed to the X-bar/R limit calculation contains
\* exactly subgroupSize measurements, for every shape of input rows.
C12_SubgroupsHaveSubgroupSize ==
    pc = "done" => \A k \in DOMAIN result : Len(result[k]) = args.subgroupSize

\* the first n values of a row (all of them when the row has fewer)
FirstValues(j, n) ==
    [t \in 1..(IF Width(j) < n THEN Width(j) ELSE n) |-> data[j].values[t]]

\* C13: when rows have width 1 and subgroupSize = n, exactly
\* floor(rowCount / n) subgroups are formed, subgroup k consists of the values
\* of rows k*n .. k*n+n-1 in their original order, and the trailing rows are
\* dropped; when rows have width n each row is one subgroup; otherwise the
\* first n values of each row are used.
C13_SubgroupFormation ==
    pc = "done" =>
        LET n == args.subgroupSize
        IN IF \A j \in DOMAIN data : Width(j) = n
           THEN result = [j \in DOMAIN data |-> data[j].values]
           ELSE IF \A j \in DOMAIN data : Width(j) = 1
                THEN /\ Len(result) = Len(data) \div n
                     /\ \A k \in DOMAIN result :
                            result[k] = [t \in 1..n |-> data[(k - 1) * n + t].values[1]]
                ELSE result = [j \in DOMAIN data |-> FirstValues(j, n)]

-----------------------------------------------------------------------------
(* Claims about the configuration held by the App *)

\* C14: in every reachable state (after any sequence of data imports with
\* metadata, parameter edits, applying suggested limits and switching between
\* the X-bar/R and I-MR views) the configuration satisfies usl > lsl and
\* subgroupSize in [2,25].
C14_ConfigurationInvariant ==
    /\ parameters.usl > parameters.lsl
    /\ parameters.subgroupSize \in 2..25

\* C15: whenever limits are computed with chartType = 'xbar-r' the result is
\* the X-bar/R variant (xBar, r), and whenever chartType = 'i-mr' it is the
\* I-MR variant (individual, movingRange).
C15_VariantMatchesChartType ==
    (~IsNull(controlLimits) /\ computedFrom.controlLimits = Snapshot)
    => /\ parameters.chartType = "xbar-r" => DOMAIN controlLimits = {"xBar", "r"}
       /\ parameters.chartType = "i-mr" =>
              DOMAIN controlLimits = {"individual", "movingRange"}

-----------------------------------------------------------------------------
(* Control-limit calculation on drawn inputs *)

LimitValues == {-1, 0, 2}

\* one to MaxLimSubgroups non-empty subgroups of up to MaxLimWidth values
SubgroupChoices ==
    SeqsUpTo(SeqsUpTo(LimitValues, MaxLimWidth) \ {<<>>}, MaxLimSubgroups) \ {<<>>}

\* series of 2 to MaxLimSeries individual values
SeriesChoices == {d \in SeqsUpTo(LimitValues, MaxLimSeries) : Len(d) >= 2}

InitLimits ==
    /\ \/ /\ data \in SubgroupChoices
          /\ \E n \in DOMAIN SPC_CONSTANTS : args = [fn |-> "calculateXbarRLimits", n |-> n]
       \/ /\ data \in SeriesChoices
          /\ args = [fn |-> "calculateIMRLimits", n |-> 2]
    /\ limits = Null
    /\ rules = <<>>
    /\ pc = "input"
    /\ result = <<>>
    /\ AppInit

CallXbarRLimits ==
    /\ pc = "input"
    /\ args.fn = "calculateXbarRLimits"
    /\ ~getConstantThrows(args.n)
    /\ pc' = "done"
    /\ result' = calculateXbarRLimits(data, args.n)
    /\ UNCHANGED <<data, limits, rules, args>>
    /\ UNCHANGED appVars

CallIMRLimits ==
    /\ pc = "input"
    /\ args.fn = "calculateIMRLimits"
    /\ ~calculateIMRLimitsThrows(data)
    /\ pc' = "done"
    /\ result' = calculateIMRLimits(data)
    /\ UNCHANGED <<data, limits, rules, args>>
    /\ UNCHANGED appVars

NextLimits == CallXbarRLimits \/ CallIMRLimits

SpecLimits == InitLimits /\ [][NextLimits]_vars

\* the primary (X-bar or individuals) and the variability (R or moving-range)
\* chart of a control-limit set
PrimaryChart(lim) == IF "xBar" \in DOMAIN lim THEN lim.xBar ELSE lim.individual
VariabilityChart(lim) == IF "r" \in DOMAIN lim THEN lim.r ELSE lim.movingRange

\* ucl >= center >= lcl; the three are numerators over the chart's positive
\* denominator
Ordered(chart) == chart.den > 0 /\ chart.ucl >= chart.center /\ chart.center >= chart.lcl

\* C16: every control-limit set produced by calculateXbarRLimits (non-empty
\* subgroups, n in 2..25) or calculateIMRLimits (at least 2 values) satisfies
\* ucl >= center >= lcl on both charts and lcl >= 0 on the variability chart;
\* for n < 7, and always for I-MR, the variability lcl is exactly 0.
C16_LimitsOrdered ==
    pc = "done" =>
        /\ Ordered(PrimaryChart(result))
        /\ Ordered(VariabilityChart(result))
        /\ VariabilityChart(result).lcl >= 0
        /\ (args.fn = "calculateIMRLimits" \/ args.n < 7)
               => VariabilityChart(result).lcl = 0

\* limits of subgroups with a range, for a subgroup size whose D3 is not 0
C16_Witness ==
    /\ pc = "done"
    /\ args.fn = "calculateXbarRLimits"
    /\ args.n >= 7
    /\ VariabilityChart(result).lcl > 0
    /\ PrimaryChart(result).ucl > PrimaryChart(result).center
    /\ PrimaryChart(result).center < 0

-----------------------------------------------------------------------------
(* Constant lookup on drawn subgroup sizes *)

ConstantKeys == {"A2", "D3", "D4", "c4", "d2", "d3"}

\* n = num / den: the integers -2 .. 2 * MaxConstantArg and the halves up to
\* MaxConstantArg
InitConstant ==
    /\ \E num \in (-2)..(2 * MaxConstantArg) : \E den \in {1, 2} :
          \/ \E key \in ConstantKeys :
                args = [fn |-> "getConstant", num |-> num, den |-> den, key |-> key]
          \/ args = [fn |-> "getAllConstants", num |-> num, den |-> den, key |-> "all"]
    /\ data = <<>>
    /\ limits = Null
    /\ rules = <<>>
    /\ pc = "input"
    /\ result = <<>>
    /\ AppInit

CallGetConstant ==
    /\ pc = "input"
    /\ args.fn = "getConstant"
    /\ pc' = "done"
    /\ result' = getConstantOutcome(args.num, args.den, args.key)
    /\ UNCHANGED <<data, limits, rules, args>>
    /\ UNCHANGED appVars

CallGetAllConstants ==
    /\ pc = "input"
    /\ args.fn = "getAllConstants"
    /\ pc' = "done"
    /\ result' = getAllConstantsOutcome(args.num, args.den)
    /\ UNCHANGED <<data, limits, rules, args>>
    /\ UNCHANGED appVars

NextConstant == CallGetConstant \/ CallGetAllConstants

SpecConstant == InitConstant /\ [][NextConstant]_vars

\* the argument is an integer, and which
ArgIsInteger == args.num % args.den = 0
ArgInteger == args.num \div args.den

\* C17: constant lookup succeeds for every integer n in [2,25] and returns
\* that row of the fixed table (for n = 5: A2 = 0.577, D3 = 0, D4 = 2.115), and
\* fails with an error for every n < 2, every n > 25 and every non-integer n.
C17_ConstantLookup ==
    pc = "done" =>
        IF ArgIsInteger /\ ArgInteger \in 2..25
        THEN /\ ~result.threw
             /\ result.value = IF args.fn = "getConstant"
                               THEN SPC_CONSTANTS[ArgInteger][args.key]
                               ELSE SPC_CONSTANTS[ArgInteger]
             /\ (args.fn = "getAllConstants" /\ ArgInteger = 5)
                    => /\ result.value.A2 = 577
                       /\ result.value.D3 = 0
                       /\ result.value.D4 = 2115
        ELSE result.threw

\* the lookup of A2 for n = 5
C17_Witness ==
    /\ pc = "done"
    /\ args.fn = "getConstant"
    /\ args.num = 5 * args.den
    /\ args.key = "A2"
    /\ ~result.threw
    /\ result.value = 577

-----------------------------------------------------------------------------
(* Process metrics on drawn data sets *)

MetricValues == {19, 20, 22}
SpecLimitValues == {19, 21, 22}

InitMetrics ==
    /\ data \in SeqsUpTo(MetricValues, MaxMetricsLen)
    /\ \E usl \in SpecLimitValues : \E lsl \in SpecLimitValues :
          args = [usl |-> usl, lsl |-> lsl]
    /\ limits = Null
    /\ rules = <<>>
    /\ pc = "input"
    /\ result = <<>>
    /\ AppInit

\* calculateAllMetrics and shapiroWilkTest as processData calls them
CallAllMetrics ==
    /\ pc = "input"
    /\ pc' = "done"
    /\ result' = calculatedMetrics(data, args.usl, args.lsl)
    /\ UNCHANGED <<data, limits, rules, args>>
    /\ UNCHANGED appVars

SpecMetrics == InitMetrics /\ [][CallAllMetrics]_vars

\* a <= b and a = b for two finite indices over the same sigma
IndexLeq(a, b) == a.num * b.den <= b.num * a.den
IndexEq(a, b) == a.num * b.den = b.num * a.den

\* the mean equals (usl + lsl) / 2
Centered == 2 * result.mean.num = (args.usl + args.lsl) * result.mean.den

AllEqual == \A i, j \in DOMAIN data : data[i] = data[j]

C20_NormalityEstimateInRange ==
    pc = "done" =>
        LET pValue == result.normalityPValue
        IN /\ ~pValue.isNaN
           /\ Len(data) < 3 => (pValue.lo = 1000 /\ pValue.hi = 1000)
           /\ Len(data) >= 3 => (pValue.lo >= 1 /\ pValue.hi <= 1000)

-----------------------------------------------------------------------------
(* processData on drawn files *)

\* the configuration of a processData call: usl above lsl, all rules
ProcessParameters(n, ct) ==
    [usl |-> 1, lsl |-> 0, target |-> 1, subgroupSize |-> n,
     anomalyRules |-> AllRules, chartType |-> ct]

InitProcess ==
    /\ data \in FileChoices
    /\ \E n \in 2..MaxSubgroupSize : \E ct \in {"xbar-r", "i-mr"} :
          args = ProcessParameters(n, ct)
    /\ limits = Null
    /\ rules = <<>>
    /\ pc = "input"
    /\ result = <<>>
    /\ AppInit

\* one run of processData on the file, starting from the stored results of
\* the initial state; the result is the record of the stored results
CallProcessData ==
    /\ pc = "input"
    /\ pc' = "done"
    /\ result' = processData(data, args, Stored)
    /\ UNCHANGED <<data, limits, rules, args>>
    /\ UNCHANGED appVars

SpecProcess == InitProcess /\ [][CallProcessData]_vars

\* the number of measurements of all rows, and their sum
TotalMeasurements == SumSeq([j \in DOMAIN data |-> Width(j)])
TotalSum == SumSeq([j \in DOMAIN data |-> SumSeq(data[j].values)])

\* the number of measurements that went into the subgroups of the X-bar/R branch
MeasurementsInSubgroups ==
    LET subgroups == formSubgroups(data, args.subgroupSize)
    IN SumSeq([k \in DOMAIN subgroups |-> Len(subgroups[k])])

\* C21: the metrics are computed on every individual measurement of every
\* row: metrics.n is the total number of measurements of all rows, and
\* metrics.mean their mean, also when subgroup formation drops measurements
\* (the trailing partial chunk, values beyond the first subgroupSize of a
\* row); in particular n is not the number of subgroups.
C21_MetricsOnFlattenedPopulation ==
    pc = "done" =>
        /\ ~IsNull(result.metrics)
        /\ result.metrics.n = TotalMeasurements
        /\ result.metrics.mean = [num |-> TotalSum, den |-> TotalMeasurements]
        /\ result.computedFrom.metrics = <<data, args>>

\* an X-bar/R run on a single-column file whose trailing partial chunk was
\* dropped: limits were stored, and the metrics count more measurements than
\* the subgroups hold
C21_Witness ==
    /\ pc = "done"
    /\ args.chartType = "xbar-r"
    /\ ~IsNull(result.controlLimits)
    /\ \A j \in DOMAIN data : Width(j) = 1
    /\ MeasurementsInSubgroups < TotalMeasurements
    /\ result.metrics.n = TotalMeasurements
    /\ result.metrics.n > Len(formSubgroups(data, args.subgroupSize))

-----------------------------------------------------------------------------
(* The merge of detectAllAnomalies with the detectors evaluated in a drawn order *)

\* the orderings of a set of rule numbers
RECURSIVE Orderings(_)
Orderings(S) ==
    IF S = {} THEN {<<>>}
    ELSE UNION {{<<k>> \o o : o \in Orderings(S \ {k})} : k \in S}

\* the "if (rules.includes(k)) allAnomalies = allAnomalies.concat(...)" blocks
\* taken in the given order of k
RECURSIVE collectInOrder(_, _, _, _, _, _, _, _)
collectInOrder(d, center, ucl, lcl, rs, order, j, acc) ==
    IF j > Len(order) THEN acc
    ELSE collectInOrder(d, center, ucl, lcl, rs, order, j + 1,
                        IF includes(rs, order[j])
                        THEN acc \o ruleOutput(order[j], d, center, ucl, lcl)
                        ELSE acc)

\* detectAllAnomalies with the detectors' records collected in the given order
detectInOrder(d, lim, rs, order) ==
    LET chartLimits == chartLimitsOf(lim)
        allAnomalies == collectInOrder(d, chartLimits.center, chartLimits.ucl,
                                       chartLimits.lcl, rs, order, 1, <<>>)
    IN sortByIndex(fillAnomalyMap(allAnomalies, 1, <<>>))

\* nine-point series above the center line that rise or stay
RisingNine ==
    {w \in {WalkFrom(s, st) : s \in {1, 5}, st \in [1..8 -> {0, 1}]} :
        \A j \in DOMAIN w : w[j] <= LimitsC.xBar.ucl}

\* a series on which rules 1, 5 and 6 fire at the last index, and one on
\* which rules 2, 3, 5, 6 and 8 fire
AllSeverities == <<3, 3, 3, 3, 4>>
RisingToUcl == <<4, 5, 6, 7, 8, 9, 9, 9, 9>>

\* short series over all zones with rules 1, 5 and 6 (critical, warning,
\* info), nine-point series with rules 2, 3, 6 and 8, and two series with
\* all eight rules; every order of the enabled detectors
InitMerge ==
    /\ \/ /\ data \in SeqsUpTo({-3, 0, 2, 3, 4}, MaxLen)
          /\ limits = LimitsA
          /\ rules = <<1, 5, 6>>
       \/ /\ data \in RisingNine
          /\ limits = LimitsC
          /\ rules = <<2, 3, 6, 8>>
       \/ /\ data = AllSeverities
          /\ limits = LimitsA
          /\ rules = AllRules
       \/ /\ data = RisingToUcl
          /\ limits = LimitsC
          /\ rules = AllRules
    /\ \E order \in Orderings({rules[j] : j \in DOMAIN rules}) : args = [order |-> order]
    /\ pc = "input"
    /\ result = <<>>
    /\ AppInit

CallDetectInOrder ==
    /\ pc = "input"
    /\ pc' = "done"
    /\ result' = detectInOrder(data, limits, rules, args.order)
    /\ UNCHANGED <<data, limits, rules, args>>
    /\ UNCHANGED appVars

SpecMerge == InitMerge /\ [][CallDetectInOrder]_vars

\* the (index, severity) pairs of a list of records
IndexSeverity(list) == {<<list[j].index, list[j].level>> : j \in DOMAIN list}

\* the position of detector k in the order
PositionIn(order, k) == CHOOSE j \in DOMAIN order : order[j] = k

\* C22: whatever the order in which the detectors are evaluated and their
\* records collected, the merged output has the same indices and the same
\* severity at each index as the output of the order 1..8 of the code, with
\* one record per index.
C22_MergeOrderIndependent ==
    pc = "done" =>
        LET inCodeOrder == detectAllAnomalies(data, limits, rules)
        IN /\ IndexSeverity(result) = IndexSeverity(inCodeOrder)
           /\ Len(result) = Len(inCodeOrder)
           /\ \A i \in Indices : Cardinality(RecordsAt(result, i)) <= 1

\* an order in which a less severe detector that fired at an index was
\* evaluated before a more severe one and a more severe one before a less
\* severe one, and in which a tie was won by another rule than in code order
C22_Witness ==
    /\ pc = "done"
    /\ \E i \in Indices : \E k, h \in FiringAt(i) :
          /\ SeverityIn(DetectorOutputs, k, i) < SeverityIn(DetectorOutputs, h, i)
          /\ PositionIn(args.order, k) > PositionIn(args.order, h)
    /\ \E i \in Indices : \E k, h \in FiringAt(i) :
          /\ SeverityIn(DetectorOutputs, k, i) < SeverityIn(DetectorOutputs, h, i)
          /\ PositionIn(args.order, k) < PositionIn(args.order, h)
    /\ result # detectAllAnomalies(data, limits, rules)

-----------------------------------------------------------------------------
(* C23: rule 6 *)

\* rule 6: every short series over the center line, the 1-sigma boundaries
\* and points beyond them on both sides
InitRule6 ==
    /\ data \in SeqsUpTo({-2, -1, 0, 1, 2}, MaxWin6)
    /\ limits \in LimitChoices
    /\ rules = <<6>>
    /\ InitCall

CallRule6 ==
    /\ pc = "input"
    /\ pc' = "done"
    /\ result' = rule6_FourOfFiveInZoneB(data, chartLimitsOf(limits).center,
                                         chartLimitsOf(limits).ucl, chartLimitsOf(limits).lcl)
    /\ UNCHANGED <<data, limits, rules, args>>
    /\ UNCHANGED appVars

SpecRule6 == InitRule6 /\ [][CallRule6]_vars

\* the point is more than 1 sigma from center: 3 |v - center| > ucl - center
MoreThan1Sigma(v) == 3 * Abs(v - Center) > Ucl - Center

\* how many of the 5 points ending at index i are more than 1 sigma from center
FarPointsOfFive(i) == Cardinality({q \in (i - 4)..i : MoreThan1Sigma(Point(q))})

\* C23: rule 6 emits an info record at index i exactly when i >= 4 and at
\* least 4 of the 5 points ending at i are more than 1 sigma from center,
\* points above and below center counted together; no record below index 4.
C23_Rule6FourOfFive ==
    pc = "done" =>
        /\ \A i \in Indices :
              HasRecordAt(result, i) <=> (i >= 4 /\ FarPointsOfFive(i) >= 4)
        /\ \A i \in Indices : Cardinality(RecordsAt(result, i)) <= 1
        /\ \A j \in DOMAIN result :
              /\ result[j].rule = 6
              /\ result[j].level = "info"
              /\ result[j].index >= 4
              /\ result[j].index \in Indices
              /\ result[j].value = Point(result[j].index)
              /\ result[j].description[1] = FarPointsOfFive(result[j].index)

\* a record whose window has far points above and below center and a point
\* on the 1-sigma boundary that is not counted, in a series whose first four
\* points are all far (no record at index 3)
C23_Witness ==
    /\ pc = "done"
    /\ Len(data) >= 5
    /\ \A q \in 0..3 : MoreThan1Sigma(Point(q))
    /\ ~HasRecordAt(result, 3)
    /\ \E i \in Indices :
          /\ HasRecordAt(result, i)
          /\ FarPointsOfFive(i) = 4
          /\ \E q \in (i - 4)..i : Point(q) > Center /\ MoreThan1Sigma(Point(q))
          /\ \E q \in (i - 4)..i : Point(q) < Center /\ MoreThan1Sigma(Point(q))
          /\ \E q \in (i - 4)..i : 3 * Abs(Point(q) - Center) = Ucl - Center

-----------------------------------------------------------------------------
(* C24: rule 7 *)

\* a run of n points that cycles through the given values
ZoneRun(n, vals) == [j \in 1..n |-> vals[((j - 1) % Len(vals)) + 1]]

\* values within 1 sigma of center 0 under both limit sets (1 and -1 lie on
\* the boundary when sigma = 1), and values beyond
WithinValues == {<<1>>, <<-1, 0, 1>>}
BeyondValues == {<<2>>, <<-2, 2>>}

\* rule 7: a run within 1 sigma, a break of up to two points beyond, and a
\* second run within 1 sigma; and every very short series
InitRule7 ==
    /\ data \in {ZoneRun(a, iv) \o ZoneRun(b, ov) \o ZoneRun(c, iv) :
                    a \in 0..MaxRun7, b \in 0..2, c \in 0..MaxRun7,
                    iv \in WithinValues, ov \in BeyondValues}
          \cup SeqsUpTo({-2, -1, 0, 1, 2}, 3)
    /\ limits \in LimitChoices
    /\ rules = <<7>>
    /\ InitCall

CallRule7 ==
    /\ pc = "input"
    /\ pc' = "done"
    /\ result' = rule7_FifteenInZoneC(data, chartLimitsOf(limits).center,
                                      chartLimitsOf(limits).ucl, chartLimitsOf(limits).lcl)
    /\ UNCHANGED <<data, limits, rules, args>>
    /\ UNCHANGED appVars

SpecRule7 == InitRule7 /\ [][CallRule7]_vars

\* the point is at most 1 sigma from center: 3 |v - center| <= ucl - center
AtMost1Sigma(v) == 3 * Abs(v - Center) <= Ucl - Center

\* the k points ending at index i are all at most 1 sigma from center
WithinRun(i, k) ==
    /\ i + 1 >= k
    /\ AllPoints(i - k + 1, i, AtMost1Sigma)

\* the length of the longest such run ending at index i
WithinRunLength(i) ==
    CHOOSE k \in 0..(i + 1) :
        /\ (k > 0 => WithinRun(i, k))
        /\ (k < i + 1 => ~WithinRun(i, k + 1))

\* C24: rule 7 emits an info record at index i exactly when the 15 points
\* ending at i are all at most 1 sigma from center (boundary included); a
\* point farther than 1 sigma resets the run, and every index at which the
\* run is 15 or longer has a record, which reports the length of the run.
C24_Rule7FifteenWithin ==
    pc = "done" =>
        /\ \A i \in Indices : HasRecordAt(result, i) <=> WithinRun(i, 15)
        /\ \A i \in Indices : Cardinality(RecordsAt(result, i)) <= 1
        /\ \A j \in DOMAIN result :
              /\ result[j].rule = 7
              /\ result[j].level = "info"
              /\ result[j].index \in Indices
              /\ result[j].value = Point(result[j].index)
              /\ result[j].description[1] = WithinRunLength(result[j].index)
              /\ result[j].description[1] >= 15

\* a run with points on the boundary that reached 15 and 16, then a point
\* beyond 1 sigma, and a second run that has no record at its 14th point and
\* one at its 15th
C24_Witness ==
    /\ pc = "done"
    /\ \E i \in Indices :
          /\ i >= 15
          /\ i + 15 \in Indices
          /\ ~AtMost1Sigma(Point(i))
          /\ HasRecordAt(result, i - 2) /\ HasRecordAt(result, i - 1)
          /\ \E q \in (i - 15)..(i - 1) : 3 * Abs(Point(q) - Center) = Ucl - Center
          /\ ~HasRecordAt(result, i)
          /\ ~HasRecordAt(result, i + 14)
          /\ HasRecordAt(result, i + 15)

-----------------------------------------------------------------------------
(* C25: rule 8 *)

\* rule 8: nothing or a run within 1 sigma long enough for rule 7, then a run
\* beyond 1 sigma (on one side or changing sides), a break of up to two
\* points within, and a second run beyond; and every very short series
InitRule8 ==
    /\ data \in {ZoneRun(p, iv) \o ZoneRun(a, ov) \o ZoneRun(b, iv) \o ZoneRun(c, ov) :
                    p \in {0, 15, 16}, a \in 0..MaxRun8, b \in 0..2, c \in 0..MaxRun8,
                    iv \in WithinValues, ov \in BeyondValues}
          \cup SeqsUpTo({-2, -1, 0, 1, 2}, 3)
    /\ limits \in LimitChoices
    /\ rules = <<8>>
    /\ InitCall

CallRule8 ==
    /\ pc = "input"
    /\ pc' = "done"
    /\ result' = rule8_EightBeyondZoneC(data, chartLimitsOf(limits).center,
                                        chartLimitsOf(limits).ucl, chartLimitsOf(limits).lcl)
    /\ UNCHANGED <<data, limits, rules, args>>
    /\ UNCHANGED appVars

SpecRule8 == InitRule8 /\ [][CallRule8]_vars

\* the k points ending at index i are all more than 1 sigma from center
BeyondRun(i, k) ==
    /\ i + 1 >= k
    /\ AllPoints(i - k + 1, i, MoreThan1Sigma)

\* the length of the longest such run ending at index i
BeyondRunLength(i) ==
    CHOOSE k \in 0..(i + 1) :
        /\ (k > 0 => BeyondRun(i, k))
        /\ (k < i + 1 => ~BeyondRun(i, k + 1))

\* the records of rule 7 on the series of the call
Rule7Records == rule7_FifteenInZoneC(data, Center, Ucl, Lcl)

\* C25: rule 8 emits a warning record at index i exactly when the 8 points
\* ending at i are all more than 1 sigma from center, on either side; a point
\* within 1 sigma (boundary included) resets the run; rule 7 and rule 8 never
\* both have a record at the same index.
C25_Rule8EightBeyond ==
    pc = "done" =>
        /\ \A i \in Indices : HasRecordAt(result, i) <=> BeyondRun(i, 8)
        /\ \A i \in Indices : Cardinality(RecordsAt(result, i)) <= 1
        /\ \A j \in DOMAIN result :
              /\ result[j].rule = 8
              /\ result[j].level = "warning"
              /\ result[j].index \in Indices
              /\ result[j].value = Point(result[j].index)
              /\ result[j].description[1] = BeyondRunLength(result[j].index)
        /\ \A i \in Indices : ~(HasRecordAt(result, i) /\ HasRecordAt(Rule7Records, i))

\* a series on which rule 7 fired, then rule 8 fired on a run that changes
\* sides, then a point on the 1-sigma boundary reset the run, and the second
\* run beyond has no record at its 7th point and one at its 8th
C25_Witness ==
    /\ pc = "done"
    /\ Len(Rule7Records) > 0
    /\ \E i \in Indices :
          /\ i >= 8
          /\ i + 8 \in Indices
          /\ 3 * Abs(Point(i) - Center) = Ucl - Center
          /\ HasRecordAt(result, i - 1)
          /\ \E q \in (i - 8)..(i - 1) : Point(q) > Center
          /\ \E q \in (i - 8)..(i - 1) : Point(q) < Center
          /\ ~HasRecordAt(result, i)
          /\ ~HasRecordAt(result, i + 7)
          /\ HasRecordAt(result, i + 8)

-----------------------------------------------------------------------------
(* C26: the list returned by detectAllAnomalies *)

\* the records of the enabled detectors in the order of collection
CollectedRecords == collectAnomalies(data, Center, Ucl, Lcl, rules, 1, <<>>)

\* C26: the list returned by detectAllAnomalies is strictly ascending in
\* index, every index is a position of the input series, and every record's
\* value is the point of the series at its index.
C26_OutputSortedAndAddressed ==
    pc = "done" =>
        /\ \A j \in DOMAIN result :
              /\ result[j].index \in Indices
              /\ result[j].value = Point(result[j].index)
        /\ \A j \in DOMAIN result : \A h \in DOMAIN result :
              j < h => result[j].index < result[h].index

\* an output of three or more records whose collected records were neither
\* in ascending order of index nor free of records at the same index
C26_Witness ==
    /\ pc = "done"
    /\ Len(result) >= 3
    /\ \E j \in DOMAIN CollectedRecords : \E h \in DOMAIN CollectedRecords :
          j < h /\ CollectedRecords[j].index > CollectedRecords[h].index
    /\ \E j \in DOMAIN CollectedRecords : \E h \in DOMAIN CollectedRecords :
          j < h /\ CollectedRecords[j].index = CollectedRecords[h].index

-----------------------------------------------------------------------------
(* C27: stdDev on drawn inputs *)

InitStdDev ==
    /\ data \in SeqsUpTo(MetricValues, MaxStdDevLen)
    /\ \E ddof \in 0..MaxDdof : args = [ddof |-> ddof]
    /\ limits = Null
    /\ rules = <<>>
    /\ pc = "input"
    /\ result = <<>>
    /\ AppInit

\* stdDev(xs, ddof) for the drawn ddof, next to stdDev(xs, 1) and stdDev(xs, 0)
CallStdDev ==
    /\ pc = "input"
    /\ pc' = "done"
    /\ result' = [drawn |-> stdDev(data, args.ddof),
                  sample |-> stdDev(data, 1),
                  population |-> stdDev(data, 0)]
    /\ UNCHANGED <<data, limits, rules, args>>
    /\ UNCHANGED appVars

SpecStdDev == InitStdDev /\ [][CallStdDev]_vars

\* comparison of two standard deviations, each kept as its square num / den
\* with den > 0 (both are non-negative, so the squares compare the same way)
SigmaGeq(a, b) == a.num * b.den >= b.num * a.den
SigmaEq(a, b) == a.num * b.den = b.num * a.den

\* C27: for at least 2 values stdDev(xs, 1) >= stdDev(xs, 0), with equality
\* only when all values are equal; for n <= ddof, the empty sequence
\* included, stdDev returns 0.
C27_SampleAtLeastPopulation ==
    pc = "done" =>
        /\ Len(data) >= 2 =>
              /\ SigmaGeq(result.sample, result.population)
              /\ SigmaEq(result.sample, result.population) => AllEqual
        /\ Len(data) <= args.ddof => isZero(result.drawn)
        /\ Len(data) = 0 => isZero(result.drawn)

\* values that differ: the sample deviation is strictly the larger one
C27_Witness ==
    /\ pc = "done"
    /\ Len(data) >= 2
    /\ ~AllEqual
    /\ SigmaGeq(result.sample, result.population)
    /\ ~SigmaEq(result.sample, result.population)

-----------------------------------------------------------------------------
(* C28: attribution of subgroup anomalies to rows *)

\* the stored results come from the current snapshot, whose rows all have
\* width 1 and were chunked into subgroups of size n > 1
ChunkedIntoSubgroups ==
    /\ Len(rawData) > 0
    /\ computedFrom.processedData = Snapshot
    /\ computedFrom.anomalies = Snapshot
    /\ ~IMRMode
    /\ parameters.subgroupSize > 1
    /\ \A j \in DOMAIN rawData : Len(rawData[j].values) = 1

\* the 0-based index of the subgroup that contains the row with this 0-based index
SubgroupOfRow(rowIndex) == rowIndex \div parameters.subgroupSize

\* C28: when rows of width 1 are chunked into subgroups of size n > 1, a raw
\* row's status is non-normal only if the subgroup that contains the row
\* (row r lies in subgroup r div n) has a critical or warning record.
C28_AnomaliesAttributedToSubgroupRows ==
    ChunkedIntoSubgroups =>
        \A j \in DOMAIN processedData :
            processedData[j].status # "normal" =>
                \/ MergedHas("critical", SubgroupOfRow(j - 1))
                \/ MergedHas("warning", SubgroupOfRow(j - 1))

-----------------------------------------------------------------------------
(* C29: which record survives a tie in the merge *)

\* the enabled detectors that fired at index i with the highest severity
\* among those that fired there, given the detectors' outputs
MostSevereIn(outs, i) ==
    LET firing == FiringIn(outs, i)
    IN {k \in firing : \A h \in firing : SeverityIn(outs, h, i) <= SeverityIn(outs, k, i)}

\* C29: when several enabled rules of the same, highest severity fire at one
\* index, the record kept is the one of the lowest-numbered rule among them.
C29_TieKeepsLowestRule ==
    pc = "done" =>
        LET outs == DetectorOutputs
        IN \A j \in DOMAIN result :
              LET top == MostSevereIn(outs, result[j].index)
              IN /\ result[j].rule \in top
                 /\ \A k \in top : result[j].rule <= k

\* an index at which three rules of the highest severity fired together with
\* a rule of lower severity, and the lowest-numbered of the three was kept
C29_Witness ==
    /\ pc = "done"
    /\ LET outs == DetectorOutputs
       IN \E j \in DOMAIN result :
             LET top == MostSevereIn(outs, result[j].index)
             IN /\ Cardinality(top) >= 3
                /\ FiringIn(outs, result[j].index) # top
                /\ \A k \in top : result[j].rule <= k

-----------------------------------------------------------------------------
(* C30: the rules array of detectAllAnomalies *)

\* rules arrays: empty, in and out of ascending order, with repeated entries,
\* with entries that are no rule number
RuleArrays ==
    {<<>>, <<6>>, <<1, 6>>, <<6, 1>>, <<1, 1, 6>>, <<1, 5, 6>>, <<6, 5, 1>>,
     <<5, 6, 5>>, <<9>>, <<0, 6>>, AllRules, <<8, 7, 6, 5, 4, 3, 2, 1>>}

InitRules ==
    /\ data \in SeqsUpTo({-3, 0, 3, 4}, MaxRulesLen)
    /\ limits = LimitsA
    /\ rules \in RuleArrays
    /\ InitCall

CallDetectWithRules ==
    /\ pc = "input"
    /\ pc' = "done"
    /\ result' = detectAllAnomalies(data, limits, rules)
    /\ UNCHANGED <<data, limits, rules, args>>
    /\ UNCHANGED appVars

SpecRules == InitRules /\ [][CallDetectWithRules]_vars

\* the set of the entries of the rules array
EnabledRules == {rules[j] : j \in DOMAIN rules}

\* the array that lists a set of numbers once each, in ascending order
RECURSIVE AscendingArray(_)
AscendingArray(S) ==
    IF S = {} THEN <<>>
    ELSE LET least == CHOOSE x \in S : \A y \in S : x <= y
         IN <<least>> \o AscendingArray(S \ {least})

\* C30: the output of detectAllAnomalies depends only on the set of enabled
\* rule numbers: no record of a rule that is not enabled, an empty output for
\* an empty rule set, and the same output as for the array that lists the
\* same set once each in ascending order.
C30_OutputDependsOnRuleSet ==
    pc = "done" =>
        /\ \A j \in DOMAIN result : result[j].rule \in EnabledRules
        /\ EnabledRules = {} => result = <<>>
        /\ result = detectAllAnomalies(data, limits, AscendingArray(EnabledRules))

\* a rules array that is out of order or repeats an entry, an output with
\* records of two rules, and a disabled rule that would have had records
C30_Witness ==
    /\ pc = "done"
    /\ rules # AscendingArray(EnabledRules)
    /\ \E j \in DOMAIN result : \E h \in DOMAIN result : result[j].rule # result[h].rule
    /\ \E k \in (1..8) \ EnabledRules : Len(ruleOutput(k, data, Center, Ucl, Lcl)) > 0

====
